---- MODULE Spec2Model ----
(***************************************************************************)
(* Model of the anomaly-scoring engine of Powerlytics                       *)
(* (src/anomaly_detector.py, class AnomalyDetector).                        *)
(*                                                                         *)
(* Numbers.  Power values are integers (watts).  Every float the engine    *)
(* derives from them (z-scores, trend scores, confidences) has the form    *)
(* num / sqrt(rad) with integers num >= 0 and rad >= 0, and is kept as the *)
(* record [num, rad]; comparisons are made exactly by cross-multiplying    *)
(* squares (real arithmetic, no rounding).  rad = 0 with num > 0 stands    *)
(* for +inf (a float division by zero in numpy).  np.polyfit is the        *)
(* closed form of the least-squares line; the rounding residue of its      *)
(* solver matters where the exact slope is 0 and the deviation of the      *)
(* window is 0 too, and is there whatever the build of numpy leaves        *)
(* (polyfit_residue).                                                      *)
(*                                                                         *)
(* Indices.  The code's indices are 0-based; the model keeps them and      *)
(* reads position i of a list as seq[i + 1].                               *)
(*                                                                         *)
(* Timestamps are whole hours since an epoch; datetime.hour is t % 24.     *)
(***************************************************************************)
EXTENDS Integers, Sequences, FiniteSets, TLC

VARIABLES
    anomaly_thresholds,     \* self.anomaly_thresholds
    device_id,              \* argument of the call
    data_points,            \* argument of the call
    power_values,           \* local of detect_anomalies_in_data (line 62)
    timestamps,             \* local of detect_anomalies_in_data (line 63)
    statistical_anomalies,  \* local (line 75): what the statistical detector returned
    trend_anomalies,        \* local (line 81)
    seasonal_anomalies,     \* local (line 87)
    result,                 \* the list the call returned
    outcome,                \* "pending" | "short_input" | "short_series" | "returned" | "exception"
    history,                \* the completed calls on the engine, oldest first
    completed,              \* the detectors that ran when their order is free
    invocations,            \* the calls in flight at once on the one engine
    polyfit_residue,        \* what np.polyfit leaves of a flat window in this build
    sync_state,             \* connector.py: the state dict handed to read
    now,                    \* connector.py: datetime.now(), in steps of 5 minutes
    reads,                  \* connector.py: the read calls made so far, oldest first
    anomaly_events,         \* mock_device_api.py: the global list of line 20
    api_response,           \* mock_device_api.py: the response last sent to another client
    served_requests,        \* main.py: the requests served so far with their responses
    anomaly,                \* argument of get_anomaly_explanation / _recommendations
    context,                \* their second argument (context, device_context)
    explained,              \* what get_anomaly_explanation did
    recommended             \* what get_anomaly_recommendations did

detectVars == <<device_id, data_points, power_values, timestamps,
                statistical_anomalies, trend_anomalies, seasonal_anomalies,
                result, outcome, history, completed>>

adviceVars == <<anomaly, context, explained, recommended>>

connectorVars == <<sync_state, now, reads, anomaly_events, api_response>>

vars == <<anomaly_thresholds, detectVars, adviceVars, invocations, polyfit_residue,
          connectorVars, served_requests>>

(***************************************************************************)
(* Bounds of the explored inputs.                                          *)
(***************************************************************************)
MaxShortLen == 13
MaxLongLen == 49
MaxSpike == 6
MaxNoise == 1
MaxCalls == 3
MaxGroup == 18
MaxReads == 2
MaxTicks == 2
MaxEvents == 1
MaxRequests == 2

(***************************************************************************)
(* Program constants.                                                      *)
(***************************************************************************)
MinDataPoints == 10
MinPowerValues == 10
StatMaxWindow == 24
TrendMinPoints == 12
TrendWindow == 6
SeasonalMinPoints == 48
SeasonalMinSamples == 3
HoursPerDay == 24

(***************************************************************************)
(* Arithmetic helpers.                                                     *)
(***************************************************************************)
Abs(x) == IF x < 0 THEN -x ELSE x

Min2(a, b) == IF b < a THEN b ELSE a

\* The float num / sqrt(rad).
F(num, rad) == [num |-> num, rad |-> rad]

RECURSIVE Gcd(_, _)
Gcd(a, b) == IF b = 0 THEN a ELSE Gcd(b, a % b)

\* The greatest common divisor of a, b >= 0, or 1 when both are 0.
CommonFactor(a, b) == IF a = 0 /\ b = 0 THEN 1 ELSE Gcd(a, b)

\* a.num^2 * b.rad with the factors it shares with b.num^2 * a.rad removed:
\* FScaled(a, b) against FScaled(b, a) compares a with b.
FScaled(a, b) ==
    LET g == CommonFactor(a.num, b.num)
        h == CommonFactor(a.rad, b.rad)
    IN  (a.num \div g) * (a.num \div g) * (b.rad \div h)

\* a <= b for two such floats (both finite or +inf, both >= 0).
FLeq(a, b) == FScaled(a, b) <= FScaled(b, a)

FLess(a, b) == FScaled(a, b) < FScaled(b, a)

FEq(a, b) == FScaled(a, b) = FScaled(b, a)

\* z >= t for an integer threshold t >= 0.
FGeqInt(z, t) == z.num * z.num >= t * t * z.rad

\* z / d for an integer d > 0.
FDiv(z, d) == F(z.num, d * d * z.rad)

\* Python's min(cap, x): x only when x < cap.
FMin(cap, x) == IF FLess(x, cap) THEN x ELSE cap

\* Sum of f(seq[k]) for k in lo..hi (1-based, inclusive).
RECURSIVE SumSq(_, _, _)
SumSq(seq, lo, hi) ==
    IF lo > hi THEN 0 ELSE seq[lo] * seq[lo] + SumSq(seq, lo + 1, hi)

RECURSIVE Sum(_, _, _)
Sum(seq, lo, hi) ==
    IF lo > hi THEN 0 ELSE seq[lo] + Sum(seq, lo + 1, hi)

\* floor(sqrt(x)) for x >= 0, by bisection on lo..hi (lo*lo <= x < (hi+1)^2).
RECURSIVE ISqrtIn(_, _, _)
ISqrtIn(x, lo, hi) ==
    IF lo >= hi THEN lo
    ELSE LET mid == (lo + hi + 1) \div 2
         IN  IF mid * mid <= x THEN ISqrtIn(x, mid, hi) ELSE ISqrtIn(x, lo, mid - 1)

\* (46340 is the largest integer whose square is below 2^31)
ISqrt(x) == ISqrtIn(x, 0, Min2(x, 46340))

\* Round half to even of q / 2 for an integer q >= 0.
RoundHalfEven(q) ==
    LET t == (q + 1) \div 2
    IN  IF q % 2 = 1 /\ t % 2 = 1 THEN t - 1 ELSE t

\* Python's f"{z:.1f}" of the float z, as a count of tenths (-1 for inf).
Tenths(z) ==
    IF z.rad = 0 THEN -1
    ELSE LET sq == (400 * z.num * z.num) \div z.rad
             y  == ISqrt(sq)                       \* floor(20 z)
             tie == y * y * z.rad = 400 * z.num * z.num
         IN  IF tie THEN RoundHalfEven(y) ELSE (y + 1) \div 2

\* The 0-based indices lo..hi in ascending order (empty when hi < lo).
Indices(lo, hi) == [k \in 1..(hi - lo + 1) |-> lo + k - 1]

(***************************************************************************)
(* AnomalyResult (dataclass, lines 17-27).  The explanation is kept as the *)
(* f-string's template and its formatted arguments.                        *)
(***************************************************************************)
AnomalyResult(dev, ts, power, score, severity, type, confidence, explanation) ==
    [device_id |-> dev, timestamp |-> ts, power_w |-> power,
     anomaly_score |-> score, severity |-> severity, type |-> type,
     confidence |-> confidence, explanation |-> explanation]

(***************************************************************************)
(* __init__ (lines 32-38): the thresholds, in standard deviations.         *)
(***************************************************************************)
\* The thresholds with medium and high exchanged.
InitThresholds_Misordered == [low |-> 2, medium |-> 4, high |-> 3]

InitThresholds == [low |-> 2, medium |-> 3, high |-> 4]

(***************************************************************************)
(* _detect_statistical_anomalies (lines 98-150).                           *)
(***************************************************************************)
\* The window as 24 points whatever the length of the series.
StatWindowSize_FullDay(n) == StatMaxWindow

\* line 109
StatWindowSize(n) == Min2(StatMaxWindow, n \div 2)

\* The z-score of index i against a window that ends with the point itself.
StatZScore_OwnPointIncluded(pv, i, w) ==
    LET s == Sum(pv, i - w + 2, i + 1)
        q == SumSq(pv, i - w + 2, i + 1)
    IN  F(Abs(w * pv[i + 1] - s), w * q - s * s)

\* lines 113-123: the z-score of index i against the window pv[i-w .. i-1].
\* mean = s/w, std = sqrt(w*q - s*s)/w, so z = |w*x - s| / sqrt(w*q - s*s);
\* rad = 0 is the code's std == 0.
StatZScore(pv, i, w) ==
    LET s == Sum(pv, i - w + 1, i)
        q == SumSq(pv, i - w + 1, i)
    IN  F(Abs(w * pv[i + 1] - s), w * q - s * s)

\* The ladder with the medium test before the high test.
StatSeverity_MediumFirst(th, z) ==
    IF FGeqInt(z, th.medium) THEN "medium"
    ELSE IF FGeqInt(z, th.high) THEN "high"
    ELSE IF FGeqInt(z, th.low) THEN "low"
    ELSE "none"

\* lines 125-134: "none" is the code's `continue`.
StatSeverity(th, z) ==
    IF FGeqInt(z, th.high) THEN "high"
    ELSE IF FGeqInt(z, th.medium) THEN "medium"
    ELSE IF FGeqInt(z, th.low) THEN "low"
    ELSE "none"

\* The confidence without its cap.
StatConfidence_Uncapped(z) == FDiv(z, 5)

\* line 144
StatConfidence(z) == FMin(F(19, 400), FDiv(z, 5))

\* Whether index i yields a result when a window of zero deviation is not
\* skipped.
StatFlagged_ZeroStdKept(th, pv, i, w) ==
    StatSeverity(th, StatZScore(pv, i, w)) # "none"

\* lines 119-120 and 133-134: whether index i yields a result.
StatFlagged(th, pv, i, w) ==
    LET z == StatZScore(pv, i, w)
    IN  z.rad # 0 /\ StatSeverity(th, z) # "none"

\* lines 137-146
StatResult(th, dev, pv, ts, i, w) ==
    LET z == StatZScore(pv, i, w)
    IN  AnomalyResult(dev, ts[i + 1], pv[i + 1], z, StatSeverity(th, z),
                      "statistical", StatConfidence(z),
                      [template |-> "Power consumption {z:.1f} standard deviations above normal",
                       args |-> <<Tenths(z)>>])

\* The loop of lines 111-148.  timestamps[i] raises IndexError when i is
\* beyond the timestamp list; the detector then returns nothing.
DetectStatisticalAnomalies(th, dev, pv, ts) ==
    LET n == Len(pv)
        w == StatWindowSize(n)
        flagged == SelectSeq(Indices(w, n - 1), LAMBDA i : StatFlagged(th, pv, i, w))
        raised == \E k \in 1..Len(flagged) : flagged[k] >= Len(ts)
    IN  [raised |-> raised,
         anomalies |-> IF raised THEN <<>>
                       ELSE [k \in 1..Len(flagged) |->
                                StatResult(th, dev, pv, ts, flagged[k], w)]]

(***************************************************************************)
(* _detect_trend_anomalies (lines 152-196).                                *)
(* For the window y_0..y_5 = pv[i-6 .. i-1] against x = 0..5, with         *)
(*   s = sum y, q = sum y^2, a = sum (2x - 5) y_x, v = 6q - s^2:           *)
(*   slope = a / 35, std = sqrt(v) / 6,                                    *)
(*   predicted = slope*6 + intercept = (5s + 3a) / 30,                     *)
(*   deviation = |30 pv[i] - 5s - 3a| / 30.                                *)
(***************************************************************************)
RECURSIVE TrendMoment(_, _, _)
\* sum over x = k..5 of (2x - 5) * pv[i - 6 + x]
TrendMoment(pv, i, k) ==
    IF k >= TrendWindow THEN 0
    ELSE (2 * k - (TrendWindow - 1)) * pv[i - TrendWindow + k + 1]
         + TrendMoment(pv, i, k + 1)

TrendFit(pv, i) ==
    LET s == Sum(pv, i - TrendWindow + 1, i)
        q == SumSq(pv, i - TrendWindow + 1, i)
        a == TrendMoment(pv, i, 0)
    IN  [a |-> a, v |-> TrendWindow * q - s * s,
         d |-> Abs(30 * pv[i + 1] - 5 * s - 3 * a)]

\* line 173 on a window of six equal values c, where the exact fit is slope 0
\* and intercept c and np.std is exactly 0.  The least-squares solver works
\* in floating point on a scaled matrix; depending on the build it returns
\* the exact coefficients ("none"), a slope a few ulp off 0 with a
\* prediction slope*6 + intercept that still rounds to c ("slope"), or a
\* slope a few ulp off 0 with a prediction a few ulp off c
\* ("slope_and_prediction").
PolyfitResidues == {"none", "slope", "slope_and_prediction"}

\* The window of the fit is flat: np.std(window_data) is 0.
TrendWindowFlat(fit) == fit.v = 0

\* line 177: |slope| > 0.5 * std  <=>  12 |a| > 35 sqrt(v); on a flat
\* window the test is |slope| > 0.0.
TrendSignificant(fit) ==
    IF TrendWindowFlat(fit) THEN polyfit_residue # "none"
    ELSE 144 * fit.a * fit.a > 1225 * fit.v

\* line 183: deviation > 1.5 * std  <=>  2 d > 15 sqrt(v); on a flat
\* window the test is deviation > 0.0.
TrendDeviates(fit) ==
    IF TrendWindowFlat(fit) THEN fit.d > 0 \/ polyfit_residue = "slope_and_prediction"
    ELSE 4 * fit.d * fit.d > 225 * fit.v

TrendFlagged(pv, i) ==
    LET fit == TrendFit(pv, i)
    IN  TrendSignificant(fit) /\ TrendDeviates(fit)

\* line 188: deviation / std = d / (5 sqrt(v)); a deviation above 0 over a
\* std of 0.0 is numpy's inf.
TrendScore(fit) == IF TrendWindowFlat(fit) THEN F(1, 0) ELSE F(fit.d, 25 * fit.v)

\* line 191
TrendConfidence == F(4, 25)

\* lines 184-193; f"{deviation:.1f}" of d/30 as tenths: round(d / 3), never a tie.
TrendResult(dev, pv, ts, i) ==
    LET fit == TrendFit(pv, i)
    IN  AnomalyResult(dev, ts[i + 1], pv[i + 1], TrendScore(fit), "medium",
                      "trend", TrendConfidence,
                      [template |-> "Sudden deviation from trend: {deviation:.1f}W difference",
                       args |-> <<(2 * fit.d + 3) \div 6>>])

DetectTrendAnomalies(dev, pv, ts) ==
    LET n == Len(pv)
        flagged == IF n < TrendMinPoints THEN <<>>
                   ELSE SelectSeq(Indices(TrendWindow, n - 1),
                                  LAMBDA i : TrendFlagged(pv, i))
        raised == \E k \in 1..Len(flagged) : flagged[k] >= Len(ts)
    IN  [raised |-> raised,
         anomalies |-> IF raised THEN <<>>
                       ELSE [k \in 1..Len(flagged) |->
                                TrendResult(dev, pv, ts, flagged[k])]]

(***************************************************************************)
(* _detect_seasonal_anomalies (lines 198-253).                             *)
(***************************************************************************)
\* line 214 / 231: datetime.hour
HourOf(t) == t % HoursPerDay

\* lines 212-217: the indices enumerate(timestamps) files under hour h.
HourGroup(ts, h) ==
    SelectSeq(Indices(0, Len(ts) - 1), LAMBDA i : HourOf(ts[i + 1]) = h)

\* lines 220-227: sample count, sum and sum of squares of each hour's group
\* (the hours that occur); mean = s/k, std = sqrt(k*q - s*s)/k.  An hour has
\* a baseline when k >= 3.
HourlyBaselines(pv, ts) ==
    [h \in {HourOf(ts[j]) : j \in 1..Len(ts)} |->
        LET g  == HourGroup(ts, h)
            gp == [j \in 1..Len(g) |-> pv[g[j] + 1]]
            k  == Len(g)
            s  == Sum(gp, 1, k)
            q  == SumSq(gp, 1, k)
        IN  [k |-> k, s |-> s, v |-> k * q - s * s]]

\* The z-score against the baseline of the other samples of the hour, the
\* tested one left out.
SeasonalZScore_PointLeftOut(b, power) ==
    LET k == b.k - 1
        s == b.s - power
        q == (b.v + b.s * b.s) \div b.k - power * power
    IN  F(Abs(k * power - s), k * q - s * s)

\* line 236: |power - mean| / std
SeasonalZScore(b, power) == F(Abs(b.k * power - b.s), b.v)

\* lines 233-235 without the threshold test of line 238.
SeasonalFlagged_NoThreshold(th, baselines, pv, ts, i) ==
    LET b == baselines[HourOf(ts[i + 1])]
    IN  b.k >= SeasonalMinSamples /\ b.v > 0

\* lines 233-238
SeasonalFlagged(th, baselines, pv, ts, i) ==
    LET b == baselines[HourOf(ts[i + 1])]
    IN  /\ b.k >= SeasonalMinSamples
        /\ b.v > 0
        /\ FGeqInt(SeasonalZScore(b, pv[i + 1]), th.medium)

\* The severity without the high tier.
SeasonalSeverity_AlwaysMedium(th, z) == "medium"

\* line 239
SeasonalSeverity(th, z) == IF FGeqInt(z, th.high) THEN "high" ELSE "medium"

\* The seasonal confidence with the statistical detector's divisor.
SeasonalConfidence_DividedBy5(z) == FMin(F(9, 100), FDiv(z, 5))

\* line 248
SeasonalConfidence(z) == FMin(F(9, 100), FDiv(z, 4))

\* lines 241-250
SeasonalResult(th, dev, baselines, pv, ts, i) ==
    LET z == SeasonalZScore(baselines[HourOf(ts[i + 1])], pv[i + 1])
    IN  AnomalyResult(dev, ts[i + 1], pv[i + 1], z, SeasonalSeverity(th, z),
                      "seasonal", SeasonalConfidence(z),
                      [template |-> "Unusual consumption for {hour}:00 - {z:.1f} std devs from normal",
                       args |-> <<HourOf(ts[i + 1]), Tenths(z)>>])

\* The seasonal detector without its minimum of 48 points.
DetectSeasonalAnomalies_NoMinimum(th, dev, pv, ts) ==
    LET n == Len(pv)
        raised == Len(ts) > n
        baselines == HourlyBaselines(pv, ts)
        flagged == IF raised THEN <<>>
                   ELSE SelectSeq(Indices(0, Min2(Len(ts), n) - 1),
                                  LAMBDA i : SeasonalFlagged(th, baselines, pv, ts, i))
    IN  [raised |-> raised,
         anomalies |-> [k \in 1..Len(flagged) |->
                           SeasonalResult(th, dev, baselines, pv, ts, flagged[k])]]

\* power_values[i] at line 217 raises IndexError when there are more
\* timestamps than power values; zip at line 230 stops at the shorter list.
DetectSeasonalAnomalies(th, dev, pv, ts) ==
    LET n == Len(pv)
        run == n >= SeasonalMinPoints
        raised == run /\ Len(ts) > n
        baselines == HourlyBaselines(pv, ts)
        flagged == IF run /\ ~raised
                   THEN SelectSeq(Indices(0, Min2(Len(ts), n) - 1),
                                  LAMBDA i : SeasonalFlagged(th, baselines, pv, ts, i))
                   ELSE <<>>
    IN  [raised |-> raised,
         anomalies |-> [k \in 1..Len(flagged) |->
                           SeasonalResult(th, dev, baselines, pv, ts, flagged[k])]]

(***************************************************************************)
(* detect_anomalies_in_data (lines 50-96).                                 *)
(***************************************************************************)
\* line 62: [dp['power_w'] for dp in data_points if 'power_w' in dp]
ExtractPowerValues(data) ==
    LET kept == SelectSeq(data, LAMBDA dp : "power_w" \in DOMAIN dp)
    IN  [k \in 1..Len(kept) |-> kept[k].power_w]

\* The timestamps with a repeated timestamp dropped.
ExtractTimestamps_Deduplicated(data) ==
    LET kept == SelectSeq(data, LAMBDA dp : "timestamp" \in DOMAIN dp)
        all  == [k \in 1..Len(kept) |-> kept[k].timestamp]
        firsts == SelectSeq(Indices(1, Len(all)),
                            LAMBDA k : k = 1 \/ all[k] # all[k - 1])
    IN  [k \in 1..Len(firsts) |-> all[firsts[k]]]

\* line 63: [dp['timestamp'] for dp in data_points if 'timestamp' in dp]
ExtractTimestamps(data) ==
    LET kept == SelectSeq(data, LAMBDA dp : "timestamp" \in DOMAIN dp)
    IN  [k \in 1..Len(kept) |-> kept[k].timestamp]

\* line 57
TooFewDataPoints(data) == Len(data) < MinDataPoints

\* line 65
TooFewPowerValues(pv) == Len(pv) < MinPowerValues

\* What the call hands back to the model: its locals, how it ended, its list.
NoLocals ==
    [power_values |-> <<>>, timestamps |-> <<>>,
     statistical_anomalies |-> <<>>, trend_anomalies |-> <<>>,
     seasonal_anomalies |-> <<>>, result |-> <<>>, outcome |-> "short_input"]

\* The detectors in turn, with a handler that returns what was collected
\* before the exception.
RunDetectors_CollectedKept(th, dev, pv, ts) ==
    LET st == DetectStatisticalAnomalies(th, dev, pv, ts)
        tr == DetectTrendAnomalies(dev, pv, ts)
        se == DetectSeasonalAnomalies(th, dev, pv, ts)
        handed == [NoLocals EXCEPT !.power_values = pv, !.timestamps = ts,
                                   !.outcome = "exception"]
    IN  IF st.raised THEN handed
        ELSE IF tr.raised THEN
            [handed EXCEPT !.statistical_anomalies = st.anomalies,
                           !.result = st.anomalies]
        ELSE IF se.raised THEN
            [handed EXCEPT !.statistical_anomalies = st.anomalies,
                           !.trend_anomalies = tr.anomalies,
                           !.result = st.anomalies \o tr.anomalies]
        ELSE
            [handed EXCEPT !.statistical_anomalies = st.anomalies,
                           !.trend_anomalies = tr.anomalies,
                           !.seasonal_anomalies = se.anomalies,
                           !.result = st.anomalies \o tr.anomalies \o se.anomalies,
                           !.outcome = "returned"]

\* lines 71-96: the three detectors in turn, their lists concatenated; an
\* exception in a detector is caught at line 94 and the call returns [].
RunDetectors(th, dev, pv, ts) ==
    LET st == DetectStatisticalAnomalies(th, dev, pv, ts)
        tr == DetectTrendAnomalies(dev, pv, ts)
        se == DetectSeasonalAnomalies(th, dev, pv, ts)
        handed == [NoLocals EXCEPT !.power_values = pv, !.timestamps = ts,
                                   !.outcome = "exception"]
    IN  IF st.raised THEN handed
        ELSE IF tr.raised THEN
            [handed EXCEPT !.statistical_anomalies = st.anomalies]
        ELSE IF se.raised THEN
            [handed EXCEPT !.statistical_anomalies = st.anomalies,
                           !.trend_anomalies = tr.anomalies]
        ELSE
            [handed EXCEPT !.statistical_anomalies = st.anomalies,
                           !.trend_anomalies = tr.anomalies,
                           !.seasonal_anomalies = se.anomalies,
                           !.result = st.anomalies \o tr.anomalies \o se.anomalies,
                           !.outcome = "returned"]

\* The thresholds after a call that moves each of them up by one.
ThresholdsAfterCall_Raised(th) ==
    [low |-> th.low + 1, medium |-> th.medium + 1, high |-> th.high + 1]

\* self.anomaly_thresholds after a call: lines 50-96 and the detectors read
\* it (lines 127-131, 238-239) and never assign it.
ThresholdsAfterCall(th) == th

\* The caller's list after a call that empties it.
DataPointsAfterCall_Emptied(data) == <<>>

\* The caller's list after a call: lines 57-63 take its length and iterate
\* over it; no line assigns to it, to an element or to a key of one.
DataPointsAfterCall(data) == data

\* The series after a detector that clears the array it was given.
SeriesAfterDetector_Cleared(pv) == [k \in DOMAIN pv |-> 0]

\* power_array after a detector has run: the detectors slice it, index it and
\* pass it to numpy reductions (lines 112-116, 169-170, 180, 217, 230); none
\* assigns to it or to an element.
SeriesAfterDetector(pv) == pv

\* The series of every invocation kept in one place, as a field of the engine.
SeriesSlot_OnEngine(p) == 1

\* Where invocation p keeps power_values, timestamps and the detectors'
\* lists: they are locals of the call (lines 62-63, 68, 71-89), so each
\* invocation has its own.
SeriesSlot(p) == p

\* The call with both minimum-length checks left out.
DetectAnomaliesInData_NoMinimum(th, dev, data) ==
    RunDetectors(th, dev, ExtractPowerValues(data), ExtractTimestamps(data))

\* The whole call, lines 57-96.
DetectAnomaliesInData(th, dev, data) ==
    LET pv == ExtractPowerValues(data)
        ts == ExtractTimestamps(data)
    IN  IF TooFewDataPoints(data) THEN NoLocals
        ELSE IF TooFewPowerValues(pv) THEN
            [NoLocals EXCEPT !.power_values = pv, !.timestamps = ts,
                             !.outcome = "short_series"]
        ELSE RunDetectors(th, dev, pv, ts)

(***************************************************************************)
(* get_anomaly_explanation (lines 285-307).  The context argument is None  *)
(* (is_none) or a dict, kept as the function `items` from its keys to its  *)
(* values (strings).  The returned string is kept as its base (an          *)
(* f-string's template and formatted arguments) and the pieces appended.   *)
(***************************************************************************)
\* lines 292-298: explanations.get(anomaly.type, default)
BaseExplanation(a) ==
    CASE a.type = "statistical" ->
             [template |-> "Power consumption is {anomaly_score:.1f} standard deviations above normal levels",
              args |-> <<Tenths(a.anomaly_score)>>]
      [] a.type = "trend" ->
             [template |-> "Sudden deviation from established usage trend", args |-> <<>>]
      [] a.type = "seasonal" ->
             [template |-> "Unusual consumption pattern for this time of day", args |-> <<>>]
      [] OTHER ->
             [template |-> "Unusual energy consumption pattern detected", args |-> <<>>]

\* context.get(key) is truthy: the key is there and its value is no empty string.
ContextHas(ctx, key) == key \in DOMAIN ctx.items /\ ctx.items[key] # ""

\* lines 301-305
ExplanationSuffix(ctx) ==
    (IF ContextHas(ctx, "device_type") THEN <<" for ", ctx.items["device_type"]>> ELSE <<>>)
    \o (IF ContextHas(ctx, "time_of_day") THEN <<" at ", ctx.items["time_of_day"]>> ELSE <<>>)

\* The whole call; context.get at line 301 raises AttributeError on None.
GetAnomalyExplanation(a, ctx) ==
    IF ctx.is_none
    THEN [called |-> TRUE, raised |-> TRUE, base |-> [template |-> "", args |-> <<>>],
          suffix |-> <<>>]
    ELSE [called |-> TRUE, raised |-> FALSE, base |-> BaseExplanation(a),
          suffix |-> ExplanationSuffix(ctx)]

(***************************************************************************)
(* get_anomaly_recommendations (lines 309-345); device_context is not read.*)
(***************************************************************************)
ImmediateAction ==
    [type |-> "immediate_action",
     title |-> "Check for Malfunctioning Equipment",
     description |-> "High power consumption may indicate equipment malfunction",
     action |-> "Inspect major appliances and electrical systems",
     priority |-> "high"]

Monitoring ==
    [type |-> "monitoring",
     title |-> "Monitor Usage Patterns",
     description |-> "Track usage to identify the cause of trend change",
     action |-> "Check recent changes in usage habits or equipment",
     priority |-> "medium"]

Optimization ==
    [type |-> "optimization",
     title |-> "Optimize Time-Based Usage",
     description |-> "Consider shifting high-energy activities to off-peak hours",
     action |-> "Schedule major appliances during lower-cost periods",
     priority |-> "low"]

\* The recommendations when the severity of a statistical anomaly is not tested.
GetAnomalyRecommendations_AnySeverity(a, ctx) ==
    IF a.type = "statistical" THEN <<ImmediateAction>>
    ELSE IF a.type = "trend" THEN <<Monitoring>>
    ELSE IF a.type = "seasonal" THEN <<Optimization>>
    ELSE <<>>

\* lines 316-345
GetAnomalyRecommendations(a, ctx) ==
    IF a.type = "statistical" /\ a.severity = "high" THEN <<ImmediateAction>>
    ELSE IF a.type = "trend" THEN <<Monitoring>>
    ELSE IF a.type = "seasonal" THEN <<Optimization>>
    ELSE <<>>

(***************************************************************************)
(* connector.py, EcoGridConnector.read (lines 186-286).                    *)
(* Time is counted in steps of 5 minutes.  A timestamp travels as text     *)
(* (datetime.isoformat): zero-padded fields, kept here as a tuple of four  *)
(* decimal digits; max() and the state compare texts, character by         *)
(* character.                                                              *)
(***************************************************************************)
FirstSyncReadings == 288        \* line 218: timedelta(hours=24)

FirstSyncAnomalies == 2016      \* line 260: timedelta(days=7)

\* datetime.isoformat()
IsoFormat(t) == <<(t \div 1000) % 10, (t \div 100) % 10, (t \div 10) % 10, t % 10>>

\* datetime.fromisoformat()
FromIsoFormat(text) == 1000 * text[1] + 100 * text[2] + 10 * text[3] + text[4]

\* str.__lt__: the first differing character decides, a proper prefix is less.
RECURSIVE TextLess(_, _)
TextLess(a, b) ==
    IF b = <<>> THEN FALSE
    ELSE IF a = <<>> THEN TRUE
    ELSE IF Head(a) # Head(b) THEN Head(a) < Head(b)
    ELSE TextLess(Tail(a), Tail(b))

\* max(record['timestamp'] for record in records): the first of the largest.
RECURSIVE MaxTimestamp(_)
MaxTimestamp(records) ==
    IF Len(records) = 1 THEN records[1].timestamp
    ELSE LET rest == MaxTimestamp(Tail(records))
         IN  IF TextLess(records[1].timestamp, rest) THEN rest ELSE records[1].timestamp

\* state.get(stream, {}).get("last_sync"): the text, or <<>> for None.
LastSync(st, stream) == IF stream \in DOMAIN st THEN st[stream].last_sync ELSE <<>>

\* The start of the window when the cursor is never looked at.
StartTime_AlwaysFirstSync(last_sync, clock, window) == IsoFormat(clock - window)

\* lines 216-220, 258-262: `not last_sync` holds for None and for "".
StartTime(last_sync, clock, window) ==
    IF last_sync = <<>> THEN IsoFormat(clock - window) ELSE last_sync

\* The state with the entry of the stream set and every other entry dropped.
AdvanceCursor_OthersDropped(st, stream, records) ==
    IF records = <<>> THEN st
    ELSE [s \in {stream} |-> [last_sync |-> MaxTimestamp(records)]]

\* lines 246-248, 282-284: state[stream] = {"last_sync": latest_timestamp}
AdvanceCursor(st, stream, records) ==
    IF records = <<>> THEN st
    ELSE [s \in DOMAIN st \cup {stream} |->
             IF s = stream THEN [last_sync |-> MaxTimestamp(records)] ELSE st[s]]

\* lines 225-234: GET /readings with start, end and limit.
ReadingsRequest(st, clock) ==
    [path |-> "/readings",
     params |-> [start |-> StartTime(LastSync(st, "readings"), clock, FirstSyncReadings),
                 end |-> IsoFormat(clock),
                 limit |-> <<1, 0, 0, 0, 0>>]]

\* lines 265-270: GET /anomalies with since.
AnomaliesRequest(st, clock) ==
    [path |-> "/anomalies",
     params |-> [since |-> StartTime(LastSync(st, "anomalies"), clock, FirstSyncAnomalies)]]

\* The requests a call of read sends: none without api_base_url in the
\* config (KeyError at line 191) and none for an unknown stream.
ReadRequests(config, stream, st, clock) ==
    IF ~config.has_api_base_url THEN <<>>
    ELSE IF stream = "readings" THEN <<ReadingsRequest(st, clock)>>
    ELSE IF stream = "anomalies" THEN <<AnomaliesRequest(st, clock)>>
    ELSE <<>>

\* A record of the response carries a timestamp.
HasTimestamp(record) == "timestamp" \in DOMAIN record

\* lines 236-250, 272-286, and the handler of lines 206-208.  The response
\* is what session.get did: it raised, or it returned a status and a body
\* whose list (data.get('data', []), data.get('anomalies', [])) is `list`.
ReadResponse(st, stream, response) ==
    IF response.raised THEN [records |-> <<>>, state |-> st]
    ELSE IF response.status # 200 THEN [records |-> <<>>, state |-> st]
    ELSE IF \E k \in 1..Len(response.list) : ~HasTimestamp(response.list[k])
         THEN [records |-> <<>>, state |-> st]         \* KeyError inside max()
    ELSE [records |-> response.list, state |-> AdvanceCursor(st, stream, response.list)]

\* EcoGridConnector.read: what it returns and what it leaves in `state`;
\* `responses` holds the response to the request it sent, if it sent one.
Read(config, stream, st, clock, responses) ==
    IF ReadRequests(config, stream, st, clock) = <<>>
    THEN [records |-> <<>>, state |-> st]
    ELSE ReadResponse(st, stream, responses[1])

(***************************************************************************)
(* mock_device_api.py: GET /readings (lines 120-158) and GET /anomalies    *)
(* (lines 176-195).  A request is its path and its query parameters, each  *)
(* a text.  Of a generated reading the model keeps device_id and           *)
(* timestamp; its measured values are random numbers no handler reads      *)
(* back.  generate_reading records a spike in anomaly_events with a chance *)
(* of 5 percent (lines 58-69): `spike` is the position of the reading that *)
(* did, 0 for none.                                                        *)
(***************************************************************************)
MockDevices == {"device_001", "device_002", "device_003", "device_004", "device_005"}

DefaultLimit == 100             \* line 126

\* request.args.get(key): the text, or <<>> for None.
ArgGet(params, key) == IF key \in DOMAIN params THEN params[key] ELSE <<>>

\* int(text) for a text of decimal digits
RECURSIVE TextToInt(_)
TextToInt(text) ==
    IF text = <<>> THEN 0
    ELSE 10 * TextToInt(SubSeq(text, 1, Len(text) - 1)) + text[Len(text)]

\* lines 128-129: the device_id parameter is there and names a device.
DeviceKnown(params) == "device_id" \in DOMAIN params /\ params.device_id \in MockDevices

\* lines 142-150: one reading every 5 minutes from start to end, up to limit.
GeneratedReadings(device, start, end, limit) ==
    LET span == IF start <= end THEN end - start + 1 ELSE 0
        count == IF span < limit THEN span ELSE limit
    IN  [k \in 1..count |-> [device_id |-> device, timestamp |-> IsoFormat(start + k - 1)]]

\* lines 62-69: the event generate_reading appends for a spiking reading.
SpikeEvent(reading) ==
    [device_id |-> reading.device_id, timestamp |-> reading.timestamp,
     type |-> "power_spike", severity |-> "high"]

\* GET /readings, lines 120-158.
MockGetReadings(params, clock, events, spike) ==
    IF ~DeviceKnown(params)
    THEN [response |-> [raised |-> FALSE, status |-> 400, list |-> <<>>], events |-> events]
    ELSE LET start == IF ArgGet(params, "start") # <<>>
                      THEN FromIsoFormat(params.start) ELSE clock - 288
             end   == IF ArgGet(params, "end") # <<>>
                      THEN FromIsoFormat(params.end) ELSE clock
             limit == IF "limit" \in DOMAIN params THEN TextToInt(params.limit)
                      ELSE DefaultLimit
             readings == GeneratedReadings(params.device_id, start, end, limit)
         IN  [response |-> [raised |-> FALSE, status |-> 200, list |-> readings],
              events |-> IF spike \in 1..Len(readings)
                         THEN Append(events, SpikeEvent(readings[spike])) ELSE events]

\* GET /anomalies, lines 176-195.
MockGetAnomalies(params, events) ==
    LET ofDevice == IF "device_id" \in DOMAIN params
                    THEN SelectSeq(events, LAMBDA a : a.device_id = params.device_id)
                    ELSE events
        recent == IF ArgGet(params, "since") # <<>>
                  THEN SelectSeq(ofDevice,
                                 LAMBDA a : FromIsoFormat(a.timestamp)
                                                >= FromIsoFormat(params.since))
                  ELSE ofDevice
    IN  [response |-> [raised |-> FALSE, status |-> 200, list |-> recent],
         events |-> events]

\* The mock API serving a request.
MockApi(request, clock, events, spike) ==
    IF request.path = "/readings" THEN MockGetReadings(request.params, clock, events, spike)
    ELSE MockGetAnomalies(request.params, events)

(***************************************************************************)
(* The explored inputs: a base series of n evenly spaced points, with at   *)
(* most one spike (the power of one point or, in the long series, of three *)
(* consecutive points, replaced) and at most one point missing a field.    *)
(***************************************************************************)
Devices == {"dev-1", "dev-2"}

IsShort(n) == n <= MaxShortLen

Patterns(n) == IF IsShort(n) THEN {"flat", "alt", "ramp"} ELSE {"flat", "alt"}

BasePower(pat, i) ==
    CASE pat = "flat" -> 2
      [] pat = "alt"  -> 2 * (i % 2)
      [] pat = "ramp" -> i

Lengths == {0} \cup (9..MaxShortLen) \cup (47..MaxLongLen)

\* Hours between consecutive points: descending, repeated or ascending
\* timestamps for the short series; one, two or 24 points per hour-of-day
\* cycle for the long ones.
Steps(n) == IF IsShort(n) THEN {-1, 0, 1} ELSE {1, 12, 24}

SpikeVals == 4..MaxSpike

SpikePositions(n) == IF IsShort(n) THEN 0..(n - 1) ELSE {24, n - 1}

SpikeWidths(n) == IF IsShort(n) THEN {1} ELSE {1, 3}

\* <<first position, value, width>>; position -1: no spike.
Spikes(n) == {<<-1, 0, 0>>} \cup (SpikePositions(n) \X SpikeVals \X SpikeWidths(n))

\* The first, the middle or the last point may lack one of the two fields
\* (in a long series: the first its timestamp, the last its power).
Defects(n) ==
    {<<-1, "none">>} \cup
    (IF IsShort(n) THEN {0, n \div 2, n - 1} \X {"no_power", "no_timestamp"}
     ELSE {<<0, "no_timestamp">>, <<n - 1, "no_power">>})

DataPoint(pat, step, spike, defect, i) ==
    LET power == IF spike[1] <= i /\ i < spike[1] + spike[3] THEN spike[2]
                 ELSE BasePower(pat, i)
        time  == 62 + i * step
    IN  IF defect[1] = i /\ defect[2] = "no_power" THEN [timestamp |-> time]
        ELSE IF defect[1] = i /\ defect[2] = "no_timestamp" THEN [power_w |-> power]
        ELSE [power_w |-> power, timestamp |-> time]

Series(n, pat, step, spike, defect) ==
    [k \in 1..n |-> DataPoint(pat, step, spike, defect, k - 1)]

Inputs ==
    UNION { { Series(n, pat, step, spike, defect) :
                pat \in Patterns(n), step \in Steps(n),
                spike \in Spikes(n), defect \in Defects(n) } :
            n \in Lengths }

(***************************************************************************)
(* The state machine: an engine is constructed and a caller holds the      *)
(* arguments of one call; the call runs to completion in one step (its     *)
(* awaits are of coroutines that never suspend).                           *)
(***************************************************************************)
\* __init__ has run and no call has been made.
EngineConstructed ==
    /\ anomaly_thresholds = InitThresholds
    /\ history = <<>>
    /\ polyfit_residue \in PolyfitResidues

\* No calls overlap on the engine.
NoInvocations == invocations = <<>>

\* The anomaly engine is not part of the run (connector.py and the API
\* processes do not load it).
EngineAbsent ==
    /\ anomaly_thresholds = InitThresholds
    /\ history = <<>>
    /\ polyfit_residue = "none"

ClockStart == 3000

\* The connector is not run.
\* main.py has served no request.
NoApiRequest == served_requests = <<>>

NoConnector ==
    /\ sync_state = <<>>
    /\ now = ClockStart
    /\ reads = <<>>
    /\ anomaly_events = <<>>
    /\ api_response = <<>>

NotCalled == [called |-> FALSE]

EmptyContext == [is_none |-> FALSE, items |-> <<>>]

\* Nobody asks for an explanation or for recommendations.
NoAdviceCall ==
    /\ anomaly = <<>>
    /\ context = EmptyContext
    /\ explained = NotCalled
    /\ recommended = NotCalled

\* No call of detect_anomalies_in_data is made or pending.
NoDetectCall ==
    /\ device_id = "dev-1"
    /\ data_points = <<>>
    /\ power_values = <<>>
    /\ timestamps = <<>>
    /\ statistical_anomalies = <<>>
    /\ trend_anomalies = <<>>
    /\ seasonal_anomalies = <<>>
    /\ result = <<>>
    /\ outcome = "none"
    /\ completed = {}

\* A caller is about to call detect_anomalies_in_data with one of the inputs.
CallPending(inputs) ==
    /\ device_id \in Devices
    /\ data_points \in inputs
    /\ power_values = <<>>
    /\ timestamps = <<>>
    /\ statistical_anomalies = <<>>
    /\ trend_anomalies = <<>>
    /\ seasonal_anomalies = <<>>
    /\ result = <<>>
    /\ outcome = "pending"
    /\ completed = {}
    /\ NoInvocations
    /\ NoAdviceCall
    /\ NoConnector
    /\ NoApiRequest

Init == EngineConstructed /\ CallPending(Inputs)

DetectAnomaliesInDataCall ==
    /\ outcome = "pending"
    /\ \E r \in {DetectAnomaliesInData(anomaly_thresholds, device_id, data_points)} :
           /\ power_values' = r.power_values
           /\ timestamps' = r.timestamps
           /\ statistical_anomalies' = r.statistical_anomalies
           /\ trend_anomalies' = r.trend_anomalies
           /\ seasonal_anomalies' = r.seasonal_anomalies
           /\ result' = r.result
           /\ outcome' = r.outcome
           /\ history' = Append(history,
                                [device_id |-> device_id,
                                 data_points |-> data_points,
                                 data_points_after |-> DataPointsAfterCall(data_points),
                                 result |-> r.result,
                                 outcome |-> r.outcome])
    /\ anomaly_thresholds' = ThresholdsAfterCall(anomaly_thresholds)
    /\ data_points' = DataPointsAfterCall(data_points)
    /\ UNCHANGED <<device_id, completed, adviceVars, polyfit_residue, served_requests, connectorVars, invocations>>

Next == DetectAnomaliesInDataCall

Spec == Init /\ [][Next]_vars

(***************************************************************************)
(* Three days of hourly readings with a daily peak at hour 14: 72 points   *)
(* from hour `first` of the first day on, every point reading 1 except the *)
(* hour-14 points, which read 4, but for the `low`-th of these, which      *)
(* reads 1.  Power is in units of 500 W (the detectors' scores are ratios  *)
(* of power differences, so they do not depend on the unit).               *)
(***************************************************************************)
PeakHourPoint(first, low, i) ==
    LET time == first + i
        day  == (time \div HoursPerDay) - (IF first > 14 THEN 1 ELSE 0)
    IN  [timestamp |-> time,
         power_w |-> IF HourOf(time) = 14 /\ day + 1 # low THEN 4 ELSE 1]

PeakHourSeries(first, low) == [k \in 1..72 |-> PeakHourPoint(first, low, k - 1)]

PeakHourInputs == { PeakHourSeries(first, low) : first \in 0..23, low \in 1..3 }

InitPeakHour == EngineConstructed /\ CallPending(PeakHourInputs)

SpecPeakHour == InitPeakHour /\ [][Next]_vars

(***************************************************************************)
(* Repeated calls on one engine: once a call has returned, the caller may  *)
(* call again (up to MaxCalls calls), with the same or another device and  *)
(* series.  The series: nine points (too short); a ramp with a spike       *)
(* (statistical and trend results); the same with the first timestamp      *)
(* missing (IndexError inside a detector); 48 points, two per hour of day, *)
(* with a three-point pulse (results of all three types).                  *)
(***************************************************************************)
RepeatInputs ==
    { Series(9, "ramp", 1, <<4, 6, 1>>, <<-1, "none">>),
      Series(12, "ramp", 1, <<4, 6, 1>>, <<-1, "none">>),
      Series(12, "ramp", 1, <<4, 6, 1>>, <<0, "no_timestamp">>),
      Series(48, "alt", 12, <<24, 5, 3>>, <<-1, "none">>) }

InitRepeat == EngineConstructed /\ CallPending(RepeatInputs)

\* The caller calls detect_anomalies_in_data again.
CallerInvokes ==
    /\ outcome # "pending"
    /\ Len(history) < MaxCalls
    /\ device_id' \in Devices
    /\ data_points' \in RepeatInputs
    /\ power_values' = <<>>
    /\ timestamps' = <<>>
    /\ statistical_anomalies' = <<>>
    /\ trend_anomalies' = <<>>
    /\ seasonal_anomalies' = <<>>
    /\ result' = <<>>
    /\ outcome' = "pending"
    /\ UNCHANGED <<anomaly_thresholds, history, completed, adviceVars, polyfit_residue, served_requests, connectorVars, invocations>>

NextRepeat == CallerInvokes \/ DetectAnomaliesInDataCall

SpecRepeat == InitRepeat /\ [][NextRepeat]_vars

(***************************************************************************)
(* The detectors in any order: lines 57-69 prepare the series, the three   *)
(* detectors then run over power_array and timestamps in whatever order a  *)
(* scheduler picks (each runs to completion: it contains no await), and    *)
(* the join of lines 76-92 concatenates their lists, statistical first.    *)
(* An exception raised by a detector reaches line 94 and the call returns  *)
(* [].  The code itself awaits them in the order statistical, trend,       *)
(* seasonal, which is one of the orders explored.                          *)
(***************************************************************************)
Intact == [none |-> <<-1, "none">>, no_timestamp |-> <<0, "no_timestamp">>,
           no_power |-> <<11, "no_power">>]

OrderInputs ==
    RepeatInputs
    \cup { Series(12, "ramp", 1, <<pos, 6, 1>>, defect) :
             pos \in 0..11, defect \in {Intact.none, Intact.no_timestamp, Intact.no_power} }
    \cup { Series(48, "alt", 12, <<24, val, 3>>, Intact.none) : val \in SpikeVals }

InitDetectorOrder == EngineConstructed /\ CallPending(OrderInputs)

CallRecord(res, how) ==
    [device_id |-> device_id,
     data_points |-> data_points,
     data_points_after |-> DataPointsAfterCall(data_points),
     result |-> res,
     outcome |-> how]

\* lines 57-69: the length checks and the extraction of the two lists.
PrepareSeries ==
    /\ outcome = "pending"
    /\ \E pv \in {ExtractPowerValues(data_points)} :
           /\ power_values' = (IF TooFewDataPoints(data_points) THEN <<>> ELSE pv)
           /\ timestamps' = (IF TooFewDataPoints(data_points) THEN <<>>
                             ELSE ExtractTimestamps(data_points))
           /\ outcome' = (IF TooFewDataPoints(data_points) THEN "short_input"
                          ELSE IF TooFewPowerValues(pv) THEN "short_series"
                          ELSE "running")
           /\ history' = (IF TooFewDataPoints(data_points)
                          THEN Append(history, CallRecord(<<>>, "short_input"))
                          ELSE IF TooFewPowerValues(pv)
                          THEN Append(history, CallRecord(<<>>, "short_series"))
                          ELSE history)
    /\ data_points' = DataPointsAfterCall(data_points)
    /\ UNCHANGED <<anomaly_thresholds, device_id, statistical_anomalies, trend_anomalies,
                   seasonal_anomalies, result, completed, adviceVars, polyfit_residue, served_requests, connectorVars, invocations>>

HasRun(name) == \E c \in completed : c.detector = name

\* A detector may start: the series is prepared and it has not run yet.
MayRun(name) == outcome = "running" /\ ~HasRun(name)

\* What every detector leaves alone or hands on.
DetectorRan(name, r) ==
    /\ completed' = completed \cup {[detector |-> name, raised |-> r.raised]}
    /\ power_values' = SeriesAfterDetector(power_values)
    /\ anomaly_thresholds' = ThresholdsAfterCall(anomaly_thresholds)
    /\ UNCHANGED <<device_id, data_points, timestamps, result, outcome, history,
                   adviceVars, polyfit_residue, served_requests, connectorVars, invocations>>

\* lines 74-77
StatisticalDetectorRuns ==
    /\ MayRun("statistical")
    /\ \E r \in {DetectStatisticalAnomalies(anomaly_thresholds, device_id,
                                             power_values, timestamps)} :
           /\ statistical_anomalies' = r.anomalies
           /\ DetectorRan("statistical", r)
    /\ UNCHANGED <<trend_anomalies, seasonal_anomalies>>

\* lines 80-83
TrendDetectorRuns ==
    /\ MayRun("trend")
    /\ \E r \in {DetectTrendAnomalies(device_id, power_values, timestamps)} :
           /\ trend_anomalies' = r.anomalies
           /\ DetectorRan("trend", r)
    /\ UNCHANGED <<statistical_anomalies, seasonal_anomalies>>

\* lines 86-89
SeasonalDetectorRuns ==
    /\ MayRun("seasonal")
    /\ \E r \in {DetectSeasonalAnomalies(anomaly_thresholds, device_id,
                                          power_values, timestamps)} :
           /\ seasonal_anomalies' = r.anomalies
           /\ DetectorRan("seasonal", r)
    /\ UNCHANGED <<statistical_anomalies, trend_anomalies>>

\* lines 73-96: the three lists joined in the fixed order, or the handler's [].
JoinDetectors ==
    /\ outcome = "running"
    /\ HasRun("statistical") /\ HasRun("trend") /\ HasRun("seasonal")
    /\ \E failed \in {\E c \in completed : c.raised} :
           \E res \in {IF failed THEN <<>>
                       ELSE statistical_anomalies \o trend_anomalies \o seasonal_anomalies} :
               /\ result' = res
               /\ outcome' = (IF failed THEN "exception" ELSE "returned")
               /\ history' = Append(history,
                                    CallRecord(res, IF failed THEN "exception"
                                                    ELSE "returned"))
    /\ UNCHANGED <<anomaly_thresholds, device_id, data_points, power_values, timestamps,
                   statistical_anomalies, trend_anomalies, seasonal_anomalies,
                   completed, adviceVars, polyfit_residue, served_requests, connectorVars, invocations>>

NextDetectorOrder ==
    \/ PrepareSeries
    \/ StatisticalDetectorRuns
    \/ TrendDetectorRuns
    \/ SeasonalDetectorRuns
    \/ JoinDetectors

SpecDetectorOrder == InitDetectorOrder /\ [][NextDetectorOrder]_vars

(***************************************************************************)
(* Two calls at once on one engine: get_anomaly_detector (main.py lines    *)
(* 89-94) hands every request the same AnomalyDetector, and two requests   *)
(* for different devices call detect_anomalies_in_data on it.  Each call   *)
(* may be suspended at each of its awaits (lines 74, 80, 86), where the    *)
(* other may run; what happens between two awaits is one step.             *)
(***************************************************************************)
\* main.py lines 89-94: the one engine, constructed once.
GetAnomalyDetector == EngineConstructed

ConcurrentInputs ==
    RepeatInputs
    \cup { Series(12, "ramp", 1, <<8, 6, 1>>, Intact.none),
           Series(12, "flat", 0, <<11, 5, 1>>, Intact.no_power) }

Invocation(dev, data) ==
    [device_id |-> dev, data_points |-> data, pc |-> "start",
     power_values |-> <<>>, timestamps |-> <<>>,
     statistical_anomalies |-> <<>>, trend_anomalies |-> <<>>,
     seasonal_anomalies |-> <<>>, result |-> <<>>, outcome |-> "pending",
     overlapped |-> FALSE]

InitConcurrent ==
    /\ GetAnomalyDetector
    /\ NoDetectCall
    /\ NoAdviceCall
    /\ NoConnector
    /\ NoApiRequest
    /\ invocations \in
          { <<Invocation(devs[1], data1), Invocation(devs[2], data2)>> :
              devs \in {d \in Devices \X Devices : d[1] # d[2]},
              data1 \in ConcurrentInputs, data2 \in ConcurrentInputs }

InFlight(q) == invocations[q].pc \notin {"start", "done"}

\* The locals invocation p reads.
Locals(p) == invocations[SeriesSlot(p)]

\* Invocation p moves on: its own record with the fields of `own` replaced,
\* its series locals with those of `kept`.
Moved(p, own, kept) ==
    LET met == \E q \in DOMAIN invocations : q # p /\ InFlight(q)
        slot == SeriesSlot(p)
        mine == [invocations[p] EXCEPT !.pc = own.pc, !.result = own.result,
                                       !.outcome = own.outcome,
                                       !.overlapped = @ \/ met]
        step1 == [invocations EXCEPT ![p] = mine]
    IN  [step1 EXCEPT ![slot].power_values = kept.power_values,
                      ![slot].timestamps = kept.timestamps,
                      ![slot].statistical_anomalies = kept.statistical_anomalies,
                      ![slot].trend_anomalies = kept.trend_anomalies,
                      ![slot].seasonal_anomalies = kept.seasonal_anomalies]

InvocationRecord(p, res, how) ==
    [device_id |-> invocations[p].device_id,
     data_points |-> invocations[p].data_points,
     data_points_after |-> DataPointsAfterCall(invocations[p].data_points),
     result |-> res,
     outcome |-> how]

\* The invocation returns res (lines 58, 66, 92, 96).
Returns(p, res, how, kept) ==
    /\ invocations' = Moved(p, [pc |-> "done", result |-> res, outcome |-> how], kept)
    /\ history' = Append(history, InvocationRecord(p, res, how))

\* The invocation is suspended at its next await.
Suspends(p, at, kept) ==
    /\ invocations' = Moved(p, [pc |-> at, result |-> <<>>, outcome |-> "pending"], kept)
    /\ history' = history

OtherDetectVars ==
    <<device_id, data_points, power_values, timestamps, statistical_anomalies,
      trend_anomalies, seasonal_anomalies, result, outcome, completed>>

\* lines 57-69, up to the first await
Prepares(p) ==
    /\ invocations[p].pc = "start"
    /\ \E data \in {invocations[p].data_points} :
         \E pv \in {ExtractPowerValues(data)} :
           IF TooFewDataPoints(data) THEN Returns(p, <<>>, "short_input", Locals(p))
           ELSE \E kept \in {[Locals(p) EXCEPT !.power_values = pv,
                                               !.timestamps = ExtractTimestamps(data)]} :
                   IF TooFewPowerValues(pv) THEN Returns(p, <<>>, "short_series", kept)
                   ELSE Suspends(p, "prepared", kept)
    /\ UNCHANGED <<anomaly_thresholds, OtherDetectVars, adviceVars, polyfit_residue, served_requests, connectorVars>>

\* lines 74-77
AwaitsStatistical(p) ==
    /\ invocations[p].pc = "prepared"
    /\ \E r \in {DetectStatisticalAnomalies(anomaly_thresholds, invocations[p].device_id,
                                             Locals(p).power_values,
                                             Locals(p).timestamps)} :
           IF r.raised THEN Returns(p, <<>>, "exception", Locals(p))
           ELSE Suspends(p, "statistical_done",
                         [Locals(p) EXCEPT !.statistical_anomalies = r.anomalies])
    /\ UNCHANGED <<anomaly_thresholds, OtherDetectVars, adviceVars, polyfit_residue, served_requests, connectorVars>>

\* lines 80-83
AwaitsTrend(p) ==
    /\ invocations[p].pc = "statistical_done"
    /\ \E r \in {DetectTrendAnomalies(invocations[p].device_id,
                                       Locals(p).power_values,
                                       Locals(p).timestamps)} :
           IF r.raised THEN Returns(p, <<>>, "exception", Locals(p))
           ELSE Suspends(p, "trend_done",
                         [Locals(p) EXCEPT !.trend_anomalies = r.anomalies])
    /\ UNCHANGED <<anomaly_thresholds, OtherDetectVars, adviceVars, polyfit_residue, served_requests, connectorVars>>

\* lines 86-96
AwaitsSeasonal(p) ==
    /\ invocations[p].pc = "trend_done"
    /\ \E r \in {DetectSeasonalAnomalies(anomaly_thresholds, invocations[p].device_id,
                                          Locals(p).power_values,
                                          Locals(p).timestamps)} :
           IF r.raised THEN Returns(p, <<>>, "exception", Locals(p))
           ELSE Returns(p,
                        Locals(p).statistical_anomalies \o Locals(p).trend_anomalies
                            \o r.anomalies,
                        "returned",
                        [Locals(p) EXCEPT !.seasonal_anomalies = r.anomalies])
    /\ anomaly_thresholds' = ThresholdsAfterCall(anomaly_thresholds)
    /\ UNCHANGED <<OtherDetectVars, adviceVars, polyfit_residue, served_requests, connectorVars>>

InvocationPrepares == \E p \in DOMAIN invocations : Prepares(p)

InvocationAwaitsStatistical == \E p \in DOMAIN invocations : AwaitsStatistical(p)

InvocationAwaitsTrend == \E p \in DOMAIN invocations : AwaitsTrend(p)

InvocationAwaitsSeasonal == \E p \in DOMAIN invocations : AwaitsSeasonal(p)

NextConcurrent ==
    \/ InvocationPrepares
    \/ InvocationAwaitsStatistical
    \/ InvocationAwaitsTrend
    \/ InvocationAwaitsSeasonal

SpecConcurrent == InitConcurrent /\ [][NextConcurrent]_vars

(***************************************************************************)
(* Hour groups of every size: 48 points of which the first k were taken at *)
(* midnight of k days and the others at one o'clock.  The midnight points  *)
(* read 0 W except the first one or two, which read k W: with one outlier  *)
(* the z-score of the outlier is sqrt(k - 1), the largest a group of k     *)
(* samples allows, and mean and deviation are whole or exact square roots, *)
(* so that numpy's floats agree with the exact values at k = 10 and 17.    *)
(***************************************************************************)
HourGroupPoint(k, outliers, i) ==
    [power_w |-> IF i < outliers THEN k ELSE 0,
     timestamp |-> IF i < k THEN 24 * i ELSE 24 * i + 1]

HourGroupSeries(k, outliers) ==
    [j \in 1..SeasonalMinPoints |-> HourGroupPoint(k, outliers, j - 1)]

HourGroupInputs ==
    { HourGroupSeries(k, outliers) : k \in 2..MaxGroup, outliers \in {1, 2} }

InitHourGroups == EngineConstructed /\ CallPending(HourGroupInputs)

SpecHourGroups == InitHourGroups /\ [][Next]_vars

(***************************************************************************)
(* The connector against an API that answers as it likes: a scheduler      *)
(* calls read again and again on one state dict while the clock moves on.  *)
(* To each request the API raises (no connection, a body that is no JSON), *)
(* answers with a status other than 200, or answers 200 with up to two     *)
(* records, stamped just before the requested start, just after it or at   *)
(* the time of the call; a record may also lack its timestamp.             *)
(***************************************************************************)
Streams == {"readings", "anomalies", "metrics"}

Configs == {[has_api_base_url |-> TRUE], [has_api_base_url |-> FALSE]}

\* The start (or since) the request asks for.
RequestedStart(request) ==
    IF request.path = "/readings" THEN request.params.start ELSE request.params.since

Raised == [raised |-> TRUE, status |-> 0, list |-> <<>>]

Answered(status, list) == [raised |-> FALSE, status |-> status, list |-> list]

RecordStamps(request, clock) ==
    LET start == FromIsoFormat(RequestedStart(request))
    IN  {IsoFormat(start - 1), IsoFormat(start + 1), IsoFormat(clock)}

RecordLists(request, clock) ==
    LET stamped == {[timestamp |-> t] : t \in RecordStamps(request, clock)}
    IN  {<<>>} \cup {<<r>> : r \in stamped}
        \cup {<<r1, r2>> : r1 \in stamped, r2 \in stamped}

ApiResponses(request, clock) ==
    {Raised, Answered(500, <<>>), Answered(200, <<[device_id |-> "device_001"]>>)}
    \cup {Answered(200, list) : list \in RecordLists(request, clock)}

\* What is remembered of a call of read.
ReadRecord(config, stream, clock, requests, responses, out) ==
    [config |-> config, stream |-> stream, clock |-> clock,
     requests |-> requests, responses |-> responses,
     records |-> out.records,
     state_before |-> sync_state, state_after |-> out.state]

InitConnector ==
    /\ EngineAbsent
    /\ NoApiRequest
    /\ NoDetectCall
    /\ NoInvocations
    /\ NoAdviceCall
    /\ sync_state \in {<<>>, [s \in {"anomalies"} |-> [last_sync |-> IsoFormat(ClockStart - 6)]]}
    /\ now = ClockStart
    /\ reads = <<>>
    /\ anomaly_events = <<>>
    /\ api_response = <<>>

\* Five minutes pass.
Tick ==
    /\ now < ClockStart + MaxTicks
    /\ now' = now + 1
    /\ UNCHANGED <<anomaly_thresholds, detectVars, adviceVars, invocations,
                   polyfit_residue, served_requests, sync_state, reads, anomaly_events, api_response>>

\* One call of read, the answer of the API included.
ReadCallWith(config, stream, requests, responses) ==
    /\ \E out \in {Read(config, stream, sync_state, now, responses)} :
           /\ sync_state' = out.state
           /\ reads' = Append(reads, ReadRecord(config, stream, now, requests,
                                                responses, out))
    /\ UNCHANGED <<anomaly_thresholds, detectVars, adviceVars, invocations,
                   polyfit_residue, served_requests, now, anomaly_events, api_response>>

ReadCall ==
    /\ Len(reads) < MaxReads
    /\ \E config \in Configs, stream \in Streams :
         \E requests \in {ReadRequests(config, stream, sync_state, now)} :
           IF requests = <<>> THEN ReadCallWith(config, stream, requests, <<>>)
           ELSE \E response \in ApiResponses(requests[1], now) :
                    ReadCallWith(config, stream, requests, <<response>>)

NextConnector == Tick \/ ReadCall

SpecConnector == InitConnector /\ [][NextConnector]_vars

(***************************************************************************)
(* The connector with the mock device API as its endpoint                  *)
(* (api_base_url http://localhost:5000, the default of the connector's     *)
(* spec).  Beside the connector another client asks the API for the        *)
(* readings of a device over a short window, which is what fills           *)
(* anomaly_events.                                                         *)
(***************************************************************************)
InitMockApi ==
    /\ EngineAbsent
    /\ NoApiRequest
    /\ NoDetectCall
    /\ NoInvocations
    /\ NoAdviceCall
    /\ sync_state \in {<<>>, [s \in {"readings"} |-> [last_sync |-> IsoFormat(ClockStart - 3)]]}
    /\ now = ClockStart
    /\ reads = <<>>
    /\ anomaly_events = <<>>
    /\ api_response = <<>>

\* The position of the reading of a response that spiked: the first, or none.
SpikeChances == IF Len(anomaly_events) < MaxEvents THEN {0, 1} ELSE {0}

\* One call of read; the request it sends is served by the mock API.
ConnectorReads ==
    /\ Len(reads) < MaxReads
    /\ \E stream \in {"readings", "anomalies"} :
         \E requests \in {ReadRequests([has_api_base_url |-> TRUE], stream,
                                        sync_state, now)} :
           \E spike \in SpikeChances :
             \E served \in {MockApi(requests[1], now, anomaly_events, spike)} :
               \E out \in {Read([has_api_base_url |-> TRUE], stream, sync_state, now,
                                 <<served.response>>)} :
                   /\ sync_state' = out.state
                   /\ reads' = Append(reads,
                                      ReadRecord([has_api_base_url |-> TRUE], stream, now,
                                                 requests, <<served.response>>, out))
                   /\ anomaly_events' = served.events
    /\ UNCHANGED <<anomaly_thresholds, detectVars, adviceVars, invocations,
                   polyfit_residue, served_requests, now, api_response>>

\* The query of a client: a device (or none), a window (or none), a limit
\* (or none).
ClientParams(clock) ==
    { [key \in keys |->
          CASE key = "device_id" -> device
            [] key = "start" -> IsoFormat(clock - back)
            [] key = "end" -> IsoFormat(clock)
            [] key = "limit" -> <<2>>] :
        keys \in {{}, {"device_id"}, {"device_id", "limit"}, {"device_id", "start", "end"},
                  {"device_id", "start", "end", "limit"}, {"start", "end", "limit"}},
        device \in {"device_003", "device_404"},
        back \in {-1, 2} }

\* Another client sends GET /readings.
ClientRequestsReadings ==
    /\ \E params \in ClientParams(now), spike \in SpikeChances :
         \E served \in {MockGetReadings(params, now, anomaly_events, spike)} :
             /\ api_response' = <<[params |-> params, response |-> served.response]>>
             /\ anomaly_events' = served.events
    /\ UNCHANGED <<anomaly_thresholds, detectVars, adviceVars, invocations,
                   polyfit_residue, served_requests, sync_state, now, reads>>

NextMockApi == Tick \/ ConnectorReads \/ ClientRequestsReadings

SpecMockApi == InitMockApi /\ [][NextMockApi]_vars

(***************************************************************************)
(* main.py: GET /devices/{device_id}/current (lines 161-174) and           *)
(* POST /predict (lines 195-229).  The store is BigQueryClient, whose      *)
(* query finds rows, finds none, or fails; the predictor is                *)
(* VertexAIClient.predict_consumption, which returns or raises.  A         *)
(* handler's body ends in a returned value or a raised exception, and the  *)
(* handler's except clause (lines 172-174, 227-229) decides the response.  *)
(***************************************************************************)
StoreOutcomes == {"rows", "no_rows", "query_fails"}

PredictorOutcomes == {"returns", "raises"}

ApiDevices == {"device_001", "device_404"}

\* bigquery_client.py lines 82-112: the latest row, or None (<<>>) when
\* there is none or the query fails.
BqGetCurrentUsage(device, store) ==
    IF store = "rows" THEN <<[device_id |-> device]>> ELSE <<>>

\* bigquery_client.py lines 114-144: the rows, or [] when there are none or
\* the query fails.
BqGetUsageHistory(device, store) ==
    IF store = "rows" THEN <<[device_id |-> device]>> ELSE <<>>

Returned(value) == [raised |-> FALSE, value |-> value]

\* raise HTTPException(status_code=..., detail=...)
RaisedHTTPException(status, detail) ==
    [raised |-> TRUE,
     exception |-> [class |-> "HTTPException", status_code |-> status, detail |-> detail]]

\* An exception of a collaborator.
RaisedError(message) ==
    [raised |-> TRUE, exception |-> [class |-> "RuntimeError", message |-> message]]

\* fastapi's HTTPException derives from Exception, as every error does.
ExceptionSubclasses == {"Exception", "HTTPException", "RuntimeError"}

\* str(e): the message of an error; of an HTTPException "<status>: <detail>"
\* where the installed starlette defines __str__, and "" where it does not.
StrOf(exception) ==
    IF exception.class = "HTTPException"
    THEN {<<exception.status_code, exception.detail>>, <<>>}
    ELSE {<<exception.message>>}

\* lines 167-171: the body of get_current_usage inside try.
CurrentUsageBody(device, store) ==
    LET usage == BqGetCurrentUsage(device, store)
    IN  IF usage = <<>> THEN RaisedHTTPException(404, "Device not found")
        ELSE Returned(usage[1])

\* lines 204-225: the body of predict_consumption inside try.
PredictBody(device, store, predictor) ==
    LET historical_data == BqGetUsageHistory(device, store)
    IN  IF historical_data = <<>>
        THEN RaisedHTTPException(404, "No historical data found for device")
        ELSE IF predictor = "raises" THEN RaisedError("prediction failed")
        ELSE Returned([device_id |-> device, model_version |-> "1.0.0"])

\* try: body / except Exception as e: raise HTTPException(500, str(e)).
\* The responses a handler can send for the outcome of its body.
HandlerResponses(body) ==
    IF ~body.raised THEN {[status |-> 200, content |-> body.value]}
    ELSE IF body.exception.class \in ExceptionSubclasses
    THEN {[status |-> 500, detail |-> text] : text \in StrOf(body.exception)}
    ELSE {[status |-> body.exception.status_code, detail |-> body.exception.detail]}

InitApi ==
    /\ EngineAbsent
    /\ NoDetectCall
    /\ NoInvocations
    /\ NoAdviceCall
    /\ NoConnector
    /\ NoApiRequest

\* GET /devices/{device_id}/current
GetCurrentUsage ==
    /\ Len(served_requests) < MaxRequests
    /\ \E device \in ApiDevices, store \in StoreOutcomes :
         \E response \in HandlerResponses(CurrentUsageBody(device, store)) :
             served_requests' = Append(served_requests,
                                       [handler |-> "get_current_usage", device_id |-> device,
                                        store |-> store, predictor |-> "unused",
                                        response |-> response])
    /\ UNCHANGED <<anomaly_thresholds, detectVars, adviceVars, invocations,
                   polyfit_residue, connectorVars>>

\* POST /predict
PredictConsumption ==
    /\ Len(served_requests) < MaxRequests
    /\ \E device \in ApiDevices, store \in StoreOutcomes, predictor \in PredictorOutcomes :
         \E response \in HandlerResponses(PredictBody(device, store, predictor)) :
             served_requests' = Append(served_requests,
                                       [handler |-> "predict_consumption", device_id |-> device,
                                        store |-> store, predictor |-> predictor,
                                        response |-> response])
    /\ UNCHANGED <<anomaly_thresholds, detectVars, adviceVars, invocations,
                   polyfit_residue, connectorVars>>

NextApi == GetCurrentUsage \/ PredictConsumption

SpecApi == InitApi /\ [][NextApi]_vars

(***************************************************************************)
(* Explanations and recommendations: a caller holds an anomaly and a       *)
(* context and calls get_anomaly_explanation and                           *)
(* get_anomaly_recommendations, once each, in either order.  The anomaly   *)
(* is of one of the detectors' types or of another; the context is None or *)
(* a dict in which each of the keys device_type and time_of_day is absent, *)
(* empty or set.                                                           *)
(***************************************************************************)
AnomalyTypes == {"statistical", "trend", "seasonal", "manual"}

Severities == {"low", "medium", "high"}

\* 2.5, 4.25 and 5.75
ExplainedScores == {F(5, 4), F(17, 16), F(23, 16)}

ExplainedAnomalies ==
    { AnomalyResult("dev-1", 62, 6, score, severity, type, TrendConfidence,
                    [template |-> "", args |-> <<>>]) :
        score \in ExplainedScores, severity \in Severities, type \in AnomalyTypes }

ContextKeys == {"device_type", "time_of_day"}

ContextValue(key, filled) ==
    IF ~filled THEN "" ELSE IF key = "device_type" THEN "hvac" ELSE "evening"

Contexts ==
    {[is_none |-> TRUE, items |-> <<>>]} \cup
    { [is_none |-> FALSE, items |-> [key \in keys |-> ContextValue(key, key \in filled)]] :
        keys \in SUBSET ContextKeys, filled \in SUBSET ContextKeys }

InitAdvice ==
    /\ EngineConstructed
    /\ NoDetectCall
    /\ NoInvocations
    /\ NoConnector
    /\ NoApiRequest
    /\ anomaly \in ExplainedAnomalies
    /\ context \in Contexts
    /\ explained = NotCalled
    /\ recommended = NotCalled

GetAnomalyExplanationCall ==
    /\ ~explained.called
    /\ explained' = GetAnomalyExplanation(anomaly, context)
    /\ UNCHANGED <<anomaly_thresholds, detectVars, polyfit_residue, served_requests, connectorVars, anomaly, context, recommended,
                   invocations>>

GetAnomalyRecommendationsCall ==
    /\ ~recommended.called
    /\ recommended' = [called |-> TRUE,
                       list |-> GetAnomalyRecommendations(anomaly, context)]
    /\ UNCHANGED <<anomaly_thresholds, detectVars, polyfit_residue, served_requests, connectorVars, anomaly, context, explained,
                   invocations>>

NextAdvice == GetAnomalyExplanationCall \/ GetAnomalyRecommendationsCall

SpecAdvice == InitAdvice /\ [][NextAdvice]_vars

(***************************************************************************)
(* A steady load and a spike: 31 hourly points, the first 30 reading 20    *)
(* plus noise of at most MaxNoise, the last reading 100.  Power is in      *)
(* units of 50 W (1000 W, noise of 50 W a step, 5000 W).  The noise is a   *)
(* wave of period 2, 3 or 4, or a single deviating point.                  *)
(***************************************************************************)
NoiseWave(kind, i) ==
    CASE kind = "two"   -> IF i % 2 = 0 THEN 1 ELSE -1
      [] kind = "three" -> (i % 3) - 1
      [] kind = "four"  -> IF i % 2 = 0 THEN 0 ELSE 2 - (i % 4)

\* <<"wave", kind, phase, amplitude>> or <<"single", position, deviation>>
NoiseShapes ==
    ({"wave"} \X {"two", "three", "four"} \X (0..3) \X (1..MaxNoise))
    \cup ({"single"} \X (0..29) \X {d \in (-MaxNoise)..MaxNoise : d # 0})

NoiseAt(shape, i) ==
    IF shape[1] = "wave" THEN shape[4] * NoiseWave(shape[2], i + shape[3])
    ELSE IF shape[2] = i THEN shape[3] ELSE 0

SteadyThenSpikeSeries(shape) ==
    [k \in 1..31 |->
        [timestamp |-> k - 1,
         power_w |-> IF k = 31 THEN 100 ELSE 20 + NoiseAt(shape, k - 1)]]

SteadyThenSpikeInputs == { SteadyThenSpikeSeries(shape) : shape \in NoiseShapes }

InitSteadyThenSpike == EngineConstructed /\ CallPending(SteadyThenSpikeInputs)

SpecSteadyThenSpike == InitSteadyThenSpike /\ [][Next]_vars

(***************************************************************************)
(* Properties.                                                             *)
(***************************************************************************)
\* The call has run.
Called == outcome # "pending"

\* The call reached the detectors (it passed both length checks).
DetectorsRan == outcome \in {"returned", "exception"}

\* A point carrying both required fields.
IsValidPoint(dp) == "power_w" \in DOMAIN dp /\ "timestamp" \in DOMAIN dp

ValidPoints(data) == SelectSeq(data, IsValidPoint)

\* C1: the returned list is the statistical detector's list followed by the
\* trend detector's and then the seasonal detector's, nothing dropped: its
\* length is the sum of the three.
C1_ResultIsConcatenation ==
    Called =>
        /\ result = statistical_anomalies \o trend_anomalies \o seasonal_anomalies
        /\ Len(result) = Len(statistical_anomalies) + Len(trend_anomalies)
                         + Len(seasonal_anomalies)

\* C2: the power values and the timestamps handed to the detectors have the
\* same length, and at every position both come from one input point that
\* carries both fields.
C2_SeriesAligned ==
    DetectorsRan =>
        /\ Len(power_values) = Len(timestamps)
        /\ \A k \in 1..Len(power_values) :
              \E j \in 1..Len(data_points) :
                  /\ IsValidPoint(data_points[j])
                  /\ data_points[j].power_w = power_values[k]
                  /\ k <= Len(timestamps)
                  /\ data_points[j].timestamp = timestamps[k]

\* C3: the call returns what it returns for the input with the points
\* lacking a field removed.
C3_MalformedPointsIgnored ==
    Called =>
        result = DetectAnomaliesInData(anomaly_thresholds, device_id,
                                       ValidPoints(data_points)).result

\* C4: with fewer than 10 valid points the call returns the empty list.
C4_FewValidPointsEmpty ==
    (Called /\ Len(ValidPoints(data_points)) < 10) => result = <<>>

\* C5: for fewer than 10 data points (the empty list included) the call
\* returns the empty list and no exception arises.
C5_ShortInputEmpty ==
    (Called /\ Len(data_points) < 10) => (result = <<>> /\ outcome # "exception")

\* C5 witness: a call on nine points, one of them malformed, has returned.
C5_Witness ==
    /\ Called
    /\ Len(data_points) = 9
    /\ Len(ValidPoints(data_points)) = 8
    /\ result = <<>>

\* C6 (as claimed): the timestamps the detectors analyse are in
\* non-decreasing order whatever the order of the input.
C6_SeriesSortedByTimestamp ==
    DetectorsRan =>
        \A k \in 1..(Len(timestamps) - 1) : timestamps[k] <= timestamps[k + 1]

\* The input positions (1-based, ascending) of the points carrying field f.
PositionsWith(data, f) ==
    SelectSeq([k \in 1..Len(data) |-> k], LAMBDA k : f \in DOMAIN data[k])

\* C6 (amended): no sorting takes place.  The timestamps the detectors
\* analyse are those of the input points that carry one, in input order and
\* with equal timestamps all kept, and likewise the power values; so the
\* series is in non-decreasing timestamp order exactly when the input is.
C6_SeriesKeepsInputOrder ==
    DetectorsRan =>
        LET tpos == PositionsWith(data_points, "timestamp")
            ppos == PositionsWith(data_points, "power_w")
        IN  /\ Len(timestamps) = Len(tpos)
            /\ \A k \in 1..Len(tpos) : timestamps[k] = data_points[tpos[k]].timestamp
            /\ Len(power_values) = Len(ppos)
            /\ \A k \in 1..Len(ppos) : power_values[k] = data_points[ppos[k]].power_w

\* C6 witness: the detectors analysed, and flagged a point of, a series whose
\* timestamps strictly descend.
C6_Witness ==
    /\ outcome = "returned"
    /\ result # <<>>
    /\ Len(timestamps) >= 10
    /\ \A k \in 1..(Len(timestamps) - 1) : timestamps[k] > timestamps[k + 1]

FNonNegative(x) == x.num >= 0 /\ x.rad >= 0 /\ (x.num > 0 \/ x.rad > 0)

\* C8: every returned AnomalyResult has a score >= 0, a severity and a type
\* of the three allowed, a confidence in [0, 1], the device_id of the call,
\* and the power value and timestamp of one index of the analysed series.
C8_ResultFieldsWellFormed ==
    \A k \in 1..Len(result) :
        LET r == result[k]
        IN  /\ FNonNegative(r.anomaly_score)
            /\ r.severity \in {"low", "medium", "high"}
            /\ r.type \in {"statistical", "trend", "seasonal"}
            /\ FNonNegative(r.confidence)
            /\ r.confidence.rad > 0
            /\ FLeq(r.confidence, F(1, 1))
            /\ r.device_id = device_id
            /\ \E i \in 1..Len(power_values) :
                  /\ i <= Len(timestamps)
                  /\ r.power_w = power_values[i]
                  /\ r.timestamp = timestamps[i]

\* C8 witness: one call returned results of all three types.
C8_Witness ==
    /\ outcome = "returned"
    /\ \A t \in {"statistical", "trend", "seasonal"} :
          \E k \in 1..Len(result) : result[k].type = t

\* C9: a statistical result has confidence min(0.95, z/5), within
\* [0, 0.95]; a seasonal one min(0.9, z/4), within [0, 0.9]; a trend one
\* exactly 0.8 (z is the result's anomaly_score).
C9_ConfidenceByType ==
    \A k \in 1..Len(result) :
        LET r == result[k]
            z == r.anomaly_score
            c == r.confidence
        IN  /\ r.type = "statistical" =>
                  /\ FEq(c, IF FLess(FDiv(z, 5), F(95, 10000)) THEN FDiv(z, 5)
                            ELSE F(95, 10000))
                  /\ FLeq(c, F(95, 10000))
            /\ r.type = "seasonal" =>
                  /\ FEq(c, IF FLess(FDiv(z, 4), F(9, 100)) THEN FDiv(z, 4)
                            ELSE F(9, 100))
                  /\ FLeq(c, F(9, 100))
            /\ r.type = "trend" => FEq(c, F(8, 100))
            /\ FNonNegative(c)

\* C9 witness: one call returned a statistical result at the 0.95 cap, a
\* statistical result below it, a seasonal result below 0.9 and a trend
\* result.
C9_Witness ==
    /\ \E k \in 1..Len(result) :
          result[k].type = "statistical" /\ FEq(result[k].confidence, F(95, 10000))
    /\ \E k \in 1..Len(result) :
          result[k].type = "statistical" /\ FLess(result[k].confidence, F(95, 10000))
    /\ \E k \in 1..Len(result) :
          result[k].type = "seasonal" /\ FLess(result[k].confidence, F(9, 100))
    /\ \E k \in 1..Len(result) : result[k].type = "trend"

SeverityRank(sev) == CASE sev = "low" -> 1 [] sev = "medium" -> 2 [] sev = "high" -> 3

\* C10: a statistical result has severity high when z >= 4.0, medium when
\* 3.0 <= z < 4.0, low when 2.0 <= z < 3.0, and none is emitted with
\* z < 2.0; of two statistical results with z1 < z2 the second's severity is
\* never the lower.
C10_StatisticalSeverityBands ==
    /\ \A k \in 1..Len(statistical_anomalies) :
          LET r == statistical_anomalies[k]
              z == r.anomaly_score
          IN  /\ FGeqInt(z, 2)
              /\ r.severity = "high" <=> FGeqInt(z, 4)
              /\ r.severity = "medium" <=> (FGeqInt(z, 3) /\ ~FGeqInt(z, 4))
              /\ r.severity = "low" <=> (FGeqInt(z, 2) /\ ~FGeqInt(z, 3))
    /\ \A k1, k2 \in 1..Len(statistical_anomalies) :
          FLess(statistical_anomalies[k1].anomaly_score,
                statistical_anomalies[k2].anomaly_score)
          => SeverityRank(statistical_anomalies[k1].severity)
             <= SeverityRank(statistical_anomalies[k2].severity)

\* C10 witness: one call returned a statistical result with z exactly 4.0
\* (high) together with a medium and a low one of smaller z.
C10_Witness ==
    /\ outcome = "returned"
    /\ \E kh, km, kl \in 1..Len(statistical_anomalies) :
          LET h == statistical_anomalies[kh]
              m == statistical_anomalies[km]
              l == statistical_anomalies[kl]
          IN  /\ h.severity = "high" /\ FEq(h.anomaly_score, F(4, 1))
              /\ m.severity = "medium" /\ FLess(m.anomaly_score, h.anomaly_score)
              /\ l.severity = "low" /\ FLess(l.anomaly_score, m.anomaly_score)

\* Every value of the series is the same.
IsConstant(pv) == \A k \in 1..Len(pv) : pv[k] = pv[1]

\* No element of the list has the type.
NoneOfType(list, type) == \A k \in 1..Len(list) : list[k].type # type

\* C11: on a series whose power values are all the same, whatever its
\* length, the statistical detector and the seasonal detector emit no
\* anomaly, and the call returns none of either type.
C11_ConstantSeriesNotFlagged ==
    LET pv == ExtractPowerValues(data_points)
        ts == ExtractTimestamps(data_points)
    IN  (Called /\ IsConstant(pv)) =>
            /\ DetectStatisticalAnomalies(anomaly_thresholds, device_id, pv, ts).anomalies = <<>>
            /\ DetectSeasonalAnomalies(anomaly_thresholds, device_id, pv, ts).anomalies = <<>>
            /\ NoneOfType(result, "statistical")
            /\ NoneOfType(result, "seasonal")

\* C11 witness: a call on a constant series of at least 48 points, some
\* hour of which has a baseline (3 samples or more), has returned.
C11_Witness ==
    /\ outcome = "returned"
    /\ IsConstant(power_values)
    /\ Len(power_values) >= SeasonalMinPoints
    /\ Len(timestamps) = Len(power_values)
    /\ \E k \in 1..Len(timestamps) :
          HourlyBaselines(power_values, timestamps)[HourOf(timestamps[k])].k
              >= SeasonalMinSamples
    /\ statistical_anomalies = <<>>
    /\ seasonal_anomalies = <<>>

\* C12: on a series of fewer than 12 points the trend detector returns the
\* empty list without raising, and on a series of fewer than 48 points the
\* seasonal detector does.
C12_BelowDetectorMinimumEmpty ==
    LET pv == ExtractPowerValues(data_points)
        ts == ExtractTimestamps(data_points)
        nothing == [raised |-> FALSE, anomalies |-> <<>>]
    IN  Called =>
            /\ Len(pv) < TrendMinPoints => DetectTrendAnomalies(device_id, pv, ts) = nothing
            /\ Len(pv) < SeasonalMinPoints =>
                   DetectSeasonalAnomalies(anomaly_thresholds, device_id, pv, ts) = nothing
            /\ (DetectorsRan /\ Len(power_values) < TrendMinPoints) => trend_anomalies = <<>>
            /\ (DetectorsRan /\ Len(power_values) < SeasonalMinPoints) => seasonal_anomalies = <<>>

\* C12 witness: a call on 47 points has returned trend results and no
\* seasonal one, although a point lies 3 deviations or more from the mean
\* of its hour group.
C12_Witness ==
    /\ outcome = "returned"
    /\ Len(power_values) = SeasonalMinPoints - 1
    /\ Len(timestamps) = Len(power_values)
    /\ trend_anomalies # <<>>
    /\ seasonal_anomalies = <<>>
    /\ \E i \in 0..(Len(power_values) - 1) :
          SeasonalFlagged(anomaly_thresholds,
                          HourlyBaselines(power_values, timestamps),
                          power_values, timestamps, i)

\* The positions (1-based) of the hour-14 points of the analysed series.
PeakHourPositions == { k \in 1..Len(timestamps) : HourOf(timestamps[k]) = 14 }

\* C13 (as claimed): in the three-day series with one low hour-14 reading
\* the seasonal detector emits exactly one anomaly, for that reading.
C13_LowPeakHourPointFlagged ==
    Called =>
        /\ Len(seasonal_anomalies) = 1
        /\ seasonal_anomalies[1].power_w = 1
        /\ HourOf(seasonal_anomalies[1].timestamp) = 14

\* C13 (amended): in that series the seasonal detector emits no anomaly.
\* The hour-14 group has three samples, the low reading lies sqrt(2)
\* deviations from their mean, below the threshold of 3, the other two
\* hour-14 readings lie nearer, and every other hour's group is constant.
C13_LowPeakHourPointNotFlagged ==
    Called =>
        /\ outcome = "returned"
        /\ seasonal_anomalies = <<>>
        /\ NoneOfType(result, "seasonal")
        /\ Cardinality(PeakHourPositions) = 3
        /\ \A k \in 1..Len(timestamps) :
              LET b == HourlyBaselines(power_values, timestamps)[HourOf(timestamps[k])]
                  z == SeasonalZScore(b, power_values[k])
              IN  /\ b.k = 3
                  /\ b.v > 0 <=> k \in PeakHourPositions
                  /\ (k \in PeakHourPositions /\ power_values[k] = 1)
                         => FEq(z, F(2, 2))
                  /\ b.v > 0 => (FLeq(z, F(2, 2))
                                 /\ ~FGeqInt(z, anomaly_thresholds.medium))

\* C13 witness: the call on the three-day series has returned; the
\* statistical detector flagged a peak reading, the low hour-14 reading is
\* in no statistical or seasonal result.
C13_Witness ==
    /\ outcome = "returned"
    /\ Len(power_values) = 72
    /\ \E k \in PeakHourPositions : power_values[k] = 1
    /\ \E k \in 1..Len(result) :
          result[k].type = "statistical" /\ result[k].power_w = 4
    /\ \A k \in 1..Len(result) :
          result[k].type \in {"statistical", "seasonal"}
          => ~(HourOf(result[k].timestamp) = 14 /\ result[k].power_w = 1)

\* The statistical results for the last point of the analysed series.
LastPointStatistical ==
    SelectSeq(statistical_anomalies,
              LAMBDA r : r.timestamp = timestamps[Len(timestamps)])

\* The window of the last index (the 15 values before the last) is flat.
LastWindowFlat ==
    LET n == Len(power_values)
        w == StatWindowSize(n)
    IN  \A k \in (n - w)..(n - 1) : power_values[k] = power_values[n - w]

\* C14 (as claimed): for every series of 30 steady readings with small
\* noise followed by a spike of five times the level, the statistical
\* detector emits a result of severity high for the last point.
C14_SpikeFlaggedHigh ==
    Called =>
        /\ Len(LastPointStatistical) = 1
        /\ LastPointStatistical[1].severity = "high"

\* C14 (amended): the statistical detector emits a result for the last
\* point, of severity high (z >= 4), exactly when the 15 readings before it
\* are not all equal; when they are, the window has std 0 and the last point
\* is skipped.
C14_SpikeFlaggedHighUnlessWindowFlat ==
    Called =>
        /\ outcome = "returned"
        /\ StatWindowSize(Len(power_values)) = 15
        /\ LastWindowFlat => LastPointStatistical = <<>>
        /\ ~LastWindowFlat =>
              /\ Len(LastPointStatistical) = 1
              /\ LastPointStatistical[1].severity = "high"
              /\ LastPointStatistical[1].power_w = 100
              /\ FGeqInt(LastPointStatistical[1].anomaly_score, 4)
              /\ \E k \in 1..Len(result) : result[k] = LastPointStatistical[1]

\* C14 witness: a call on a series with noise among the last 15 steady
\* readings has returned a high statistical result for the spike.
C14_Witness ==
    /\ outcome = "returned"
    /\ Len(power_values) = 31
    /\ ~LastWindowFlat
    /\ \E k \in 1..Len(result) :
          /\ result[k].type = "statistical"
          /\ result[k].severity = "high"
          /\ result[k].timestamp = 30
          /\ result[k].power_w = 100

ContextNames(ctx, key) == ~ctx.is_none /\ key \in DOMAIN ctx.items

\* C17 (as claimed): get_anomaly_explanation returns the base text of the
\* anomaly's type, followed by " for {device_type}" whenever the context
\* names device_type and then by " at {time_of_day}" whenever it names
\* time_of_day; without a context it returns the base text alone.
C17_ExplanationForOptionalContext ==
    explained.called =>
        /\ ~explained.raised
        /\ explained.base = BaseExplanation(anomaly)
        /\ explained.suffix =
              (IF ContextNames(context, "device_type")
               THEN <<" for ", context.items["device_type"]>> ELSE <<>>)
              \o (IF ContextNames(context, "time_of_day")
                  THEN <<" at ", context.items["time_of_day"]>> ELSE <<>>)

\* C18: get_anomaly_recommendations returns one immediate_action record of
\* priority high for (statistical, high), one monitoring record of priority
\* medium for a trend anomaly, one optimization record of priority low for
\* a seasonal anomaly, and the empty list for everything else.
C18_RecommendationsByTypeAndSeverity ==
    recommended.called =>
        LET list == recommended.list
            one(type, priority) ==
                Len(list) = 1 /\ list[1].type = type /\ list[1].priority = priority
        IN  IF anomaly.type = "statistical" /\ anomaly.severity = "high"
                THEN one("immediate_action", "high")
            ELSE IF anomaly.type = "trend" THEN one("monitoring", "medium")
            ELSE IF anomaly.type = "seasonal" THEN one("optimization", "low")
            ELSE list = <<>>

\* C18 witness: the recommendations for a statistical anomaly of severity
\* medium have been asked for, and there are none.
C18_Witness ==
    /\ recommended.called
    /\ anomaly.type = "statistical"
    /\ anomaly.severity = "medium"
    /\ recommended.list = <<>>

StatisticalIndexQualifies(pv, i) ==
    LET n == Len(pv)
        w == IF n \div 2 < 24 THEN n \div 2 ELSE 24
        s == Sum(pv, i - w + 1, i)
        q == SumSq(pv, i - w + 1, i)
        d == w * pv[i + 1] - s
    IN  /\ w <= i /\ i <= n - 1
        /\ w * q - s * s > 0
        /\ d * d >= 4 * (w * q - s * s)

\* The z-score the claim gives index i.
StatisticalIndexScore(pv, i) ==
    LET n == Len(pv)
        w == IF n \div 2 < 24 THEN n \div 2 ELSE 24
        s == Sum(pv, i - w + 1, i)
        q == SumSq(pv, i - w + 1, i)
    IN  F(Abs(w * pv[i + 1] - s), w * q - s * s)

\* The lists extracted from the input are one series: a value and a
\* timestamp for every point.
SeriesOfPoints == Len(timestamps) = Len(power_values)

\* C21: on a series of n points the statistical detector emits a result for
\* index i exactly when w <= i <= n-1 with w = min(24, floor(n/2)), the
\* population deviation of the w values before i is not zero and z >= 2.0;
\* index i is not part of its own window, no index below w is emitted, and
\* the emitted anomaly_score is z.
C21_StatisticalEmitsExactlyQualifying ==
    (DetectorsRan /\ SeriesOfPoints) =>
        LET pv == power_values
            expected == SelectSeq(Indices(0, Len(pv) - 1),
                                  LAMBDA i : StatisticalIndexQualifies(pv, i))
        IN  /\ Len(statistical_anomalies) = Len(expected)
            /\ \A k \in 1..Len(expected) :
                   LET i == expected[k]
                       r == statistical_anomalies[k]
                   IN  /\ i >= StatWindowSize(Len(pv))
                       /\ r.power_w = pv[i + 1]
                       /\ r.timestamp = timestamps[i + 1]
                       /\ FEq(r.anomaly_score, StatisticalIndexScore(pv, i))
                       /\ r.anomaly_score.rad # 0

\* C21 witness: a call on a series of 12 points or more returned a
\* statistical result, and skipped both an index whose window is flat and
\* an index whose z-score is positive but below 2.
C21_Witness ==
    /\ outcome = "returned"
    /\ SeriesOfPoints
    /\ statistical_anomalies # <<>>
    /\ \E i \in StatWindowSize(Len(power_values))..(Len(power_values) - 1) :
           /\ StatisticalIndexScore(power_values, i).rad = 0
           /\ ~StatisticalIndexQualifies(power_values, i)
    /\ \E i \in StatWindowSize(Len(power_values))..(Len(power_values) - 1) :
           /\ StatisticalIndexScore(power_values, i).rad > 0
           /\ StatisticalIndexScore(power_values, i).num > 0
           /\ ~StatisticalIndexQualifies(power_values, i)

\* Whether index i (from 0) of the series pv is one the trend detector is to
\* report, by the least-squares line through the six values before it:
\* |slope| > 0.5 * std and |pv[i] - (slope*6 + intercept)| > 1.5 * std.
TrendIndexQualifies(pv, i) ==
    /\ Len(pv) >= 12
    /\ 6 <= i /\ i <= Len(pv) - 1
    /\ LET fit == TrendFit(pv, i)
       IN  /\ 144 * fit.a * fit.a > 1225 * fit.v
           /\ 4 * fit.d * fit.d > 225 * fit.v

\* C22 (as claimed): on a series of at least 12 points the trend detector
\* emits a result for index i, 6 <= i <= n-1, exactly when the line fitted
\* to the six values before i has |slope| > 0.5 * std(window) and
\* |power[i] - (slope*6 + intercept)| > 1.5 * std(window); every result has
\* severity medium and the score deviation / std(window).
C22_TrendEmitsExactlyQualifying ==
    (DetectorsRan /\ SeriesOfPoints) =>
        LET pv == power_values
            expected == SelectSeq(Indices(0, Len(pv) - 1),
                                  LAMBDA i : TrendIndexQualifies(pv, i))
        IN  /\ Len(trend_anomalies) = Len(expected)
            /\ \A k \in 1..Len(expected) :
                   LET i == expected[k]
                       r == trend_anomalies[k]
                       fit == TrendFit(pv, i)
                   IN  /\ r.power_w = pv[i + 1]
                       /\ r.timestamp = timestamps[i + 1]
                       /\ r.severity = "medium"
                       /\ FEq(r.anomaly_score, F(fit.d, 25 * fit.v))

\* Every score of the list is a finite number: no division by a zero
\* deviation produced it.
ScoresFinite(list) == \A k \in 1..Len(list) : list[k].anomaly_score.rad # 0

\* The six values before index i of pv are all the same.
FlatTrendWindow(pv, i) == \A x \in (i - 5)..i : pv[x] = pv[i]

\* C24 (as claimed): no detector divides by a zero standard deviation: an
\* index whose window (or hour group) has no variance yields no anomaly, and
\* the indices after it are still evaluated; in the trend detector a window
\* without variance fails the significant-trend test, so that no trend
\* result belongs to an index whose window is flat and deviation / std is
\* never taken with std = 0.
C24_NoDivisionByZeroStd ==
    (DetectorsRan /\ SeriesOfPoints) =>
        /\ ScoresFinite(statistical_anomalies)
        /\ ScoresFinite(trend_anomalies)
        /\ ScoresFinite(seasonal_anomalies)
        /\ Len(trend_anomalies) =
               Cardinality({i \in 6..(Len(power_values) - 1) :
                               /\ Len(power_values) >= 12
                               /\ ~FlatTrendWindow(power_values, i)
                               /\ TrendFlagged(power_values, i)})
        /\ Len(statistical_anomalies) =
               Cardinality({i \in 0..(Len(power_values) - 1) :
                               StatisticalIndexQualifies(power_values, i)})

\* The power values of all points of the series whose timestamp has the
\* hour of day of point i (point i among them).
SameHourValues(pv, ts, i) ==
    LET same == SelectSeq(Indices(0, Len(ts) - 1),
                          LAMBDA j : ts[j + 1] % 24 = ts[i + 1] % 24)
    IN  [j \in 1..Len(same) |-> pv[same[j] + 1]]

\* The z-score of point i against its hour group of k values, of sum s and
\* sum of squares q: |pv[i] - s/k| / (sqrt(k*q - s*s)/k).
SameHourScore(pv, ts, i) ==
    LET g == SameHourValues(pv, ts, i)
        k == Len(g)
        s == Sum(g, 1, k)
    IN  F(Abs(k * pv[i + 1] - s), k * SumSq(g, 1, k) - s * s)

\* Whether point i is one the seasonal detector is to report: its hour group
\* has at least 3 samples, a deviation that is not zero and z >= 3.0.
SeasonalIndexQualifies(pv, ts, i) ==
    LET z == SameHourScore(pv, ts, i)
    IN  /\ Len(SameHourValues(pv, ts, i)) >= 3
        /\ z.rad > 0
        /\ z.num * z.num >= 9 * z.rad

\* C23: on a series of at least 48 points the seasonal detector emits a
\* result for a point exactly when the group of all points of its hour of
\* day has at least 3 samples, a deviation that is not zero and
\* z = |power - group mean| / group std >= 3.0; the severity is high when
\* z >= 4.0 and medium otherwise, never low.
C23_SeasonalEmitsExactlyQualifying ==
    (DetectorsRan /\ SeriesOfPoints /\ Len(power_values) >= 48) =>
        LET pv == power_values
            ts == timestamps
            expected == SelectSeq(Indices(0, Len(pv) - 1),
                                  LAMBDA i : SeasonalIndexQualifies(pv, ts, i))
        IN  /\ Len(seasonal_anomalies) = Len(expected)
            /\ \A k \in 1..Len(expected) :
                   LET i == expected[k]
                       r == seasonal_anomalies[k]
                       z == SameHourScore(pv, ts, i)
                   IN  /\ r.power_w = pv[i + 1]
                       /\ r.timestamp = ts[i + 1]
                       /\ FEq(r.anomaly_score, z)
                       /\ r.severity = (IF z.num * z.num >= 16 * z.rad THEN "high"
                                        ELSE "medium")

\* C23 witness: one call on 48 points or more returned a seasonal result of
\* severity high and one of severity medium, and left unflagged a point that
\* differs from the mean of its hour group.
C23_Witness ==
    /\ outcome = "returned"
    /\ SeriesOfPoints
    /\ \E k \in 1..Len(seasonal_anomalies) : seasonal_anomalies[k].severity = "high"
    /\ \E k \in 1..Len(seasonal_anomalies) : seasonal_anomalies[k].severity = "medium"
    /\ \E i \in 0..(Len(power_values) - 1) :
           /\ SameHourScore(power_values, timestamps, i).num > 0
           /\ ~SeasonalIndexQualifies(power_values, timestamps, i)

\* C25: the call is all or nothing: when a step after the length checks
\* raises, it returns the empty list, whatever the detectors that completed
\* had collected; what it returns otherwise is the whole concatenation; the
\* exception never leaves the call.
C25_AllOrNothing ==
    /\ outcome \in {"pending", "short_input", "short_series", "returned", "exception"}
    /\ outcome = "exception" => result = <<>>
    /\ result # <<>> =>
           /\ outcome = "returned"
           /\ result = statistical_anomalies \o trend_anomalies \o seasonal_anomalies
    /\ Called =>
           LET pv == ExtractPowerValues(data_points)
               ts == ExtractTimestamps(data_points)
               raises == \/ DetectStatisticalAnomalies(anomaly_thresholds, device_id, pv, ts).raised
                         \/ DetectTrendAnomalies(device_id, pv, ts).raised
                         \/ DetectSeasonalAnomalies(anomaly_thresholds, device_id, pv, ts).raised
           IN  (Len(data_points) >= 10 /\ Len(pv) >= 10 /\ raises) =>
                   outcome = "exception" /\ result = <<>>

\* C25 witness: the statistical detector completed with results, a later
\* detector raised, and the call returned the empty list.
C25_Witness ==
    /\ outcome = "exception"
    /\ statistical_anomalies # <<>>
    /\ result = <<>>

\* The number of points of the series taken at the hour of day of point i.
SameHourCount(ts, i) == Len(SelectSeq(ts, LAMBDA t : t % 24 = ts[i + 1] % 24))

\* C26: the z-score of a point within its hour group of k samples is at
\* most sqrt(k - 1); the seasonal detector flags no point whose hour group
\* has fewer than 10 samples and gives severity high to no point whose hour
\* group has fewer than 17.
C26_SeasonalScoreBoundedByGroupSize ==
    (outcome = "returned" /\ SeriesOfPoints) =>
        /\ \A i \in 0..(Len(timestamps) - 1) :
               LET z == SameHourScore(power_values, timestamps, i)
               IN  z.rad > 0 =>
                       z.num * z.num <= (SameHourCount(timestamps, i) - 1) * z.rad
        /\ \A n \in 1..Len(seasonal_anomalies) :
               \A i \in 0..(Len(timestamps) - 1) :
                   (/\ timestamps[i + 1] = seasonal_anomalies[n].timestamp
                    /\ power_values[i + 1] = seasonal_anomalies[n].power_w) =>
                       /\ SameHourCount(timestamps, i) >= 10
                       /\ seasonal_anomalies[n].severity = "high" =>
                              SameHourCount(timestamps, i) >= 17

\* C26 witness: the one outlier of an hour group of 9 samples, at
\* z = sqrt(8), was not flagged.
C26_Witness ==
    /\ outcome = "returned"
    /\ Len(timestamps) = 48
    /\ SameHourCount(timestamps, 0) = 9
    /\ FEq(SameHourScore(power_values, timestamps, 0), F(8, 8))
    /\ seasonal_anomalies = <<>>

\* The fetch of a call of read came back with records to hand on: a request
\* was sent, the API answered 200, and the list is not empty and well formed.
FetchSucceeded(call) ==
    /\ call.requests # <<>>
    /\ ~call.responses[1].raised
    /\ call.responses[1].status = 200
    /\ call.responses[1].list # <<>>
    /\ \A k \in 1..Len(call.responses[1].list) : HasTimestamp(call.responses[1].list[k])

\* t is the largest timestamp of the records.
IsLatestOf(t, records) ==
    /\ \E k \in 1..Len(records) : records[k].timestamp = t
    /\ \A k \in 1..Len(records) : ~TextLess(t, records[k].timestamp)

\* C27: read updates the sync state only on a successful non-empty fetch:
\* when it returns records, state[stream]['last_sync'] is the largest of
\* their timestamps and the other stream's entry is as before; when the
\* fetch answers with another status than 200, raises or returns no
\* records, or the stream is unknown, read returns an empty list and leaves
\* the state as it was.
C27_StateUpdatedOnlyOnNonEmptyFetch ==
    /\ \A n \in 1..Len(reads) :
           LET call == reads[n]
           IN  /\ call.records # <<>> =>
                      /\ FetchSucceeded(call)
                      /\ call.records = call.responses[1].list
                      /\ call.stream \in DOMAIN call.state_after
                      /\ IsLatestOf(call.state_after[call.stream].last_sync, call.records)
                      /\ DOMAIN call.state_after = DOMAIN call.state_before \cup {call.stream}
                      /\ \A s \in DOMAIN call.state_after \ {call.stream} :
                             call.state_after[s] = call.state_before[s]
               /\ ~FetchSucceeded(call) =>
                      /\ call.records = <<>>
                      /\ call.state_after = call.state_before
               /\ FetchSucceeded(call) => call.records # <<>>
    /\ reads # <<>> => sync_state = reads[Len(reads)].state_after

\* C27 witness: a read of the readings stream returned two records and set
\* the readings cursor to the later one, next to an anomalies cursor that
\* stayed; the read before it failed and changed nothing.
C27_Witness ==
    /\ Len(reads) = 2
    /\ ~FetchSucceeded(reads[1])
    /\ reads[1].requests # <<>>
    /\ reads[2].stream = "readings"
    /\ Len(reads[2].records) = 2
    /\ reads[2].records[1].timestamp # reads[2].records[2].timestamp
    /\ "anomalies" \in DOMAIN reads[2].state_before
    /\ "readings" \notin DOMAIN reads[2].state_before
    /\ sync_state.anomalies = reads[2].state_before.anomalies
    /\ sync_state.readings.last_sync = IsoFormat(reads[2].clock)

\* The API kept its word in a call: every record it returned is stamped at
\* or after the start the request asked for.
ApiHonoured(call) ==
    call.requests # <<>> =>
        \A k \in 1..Len(call.responses[1].list) :
            HasTimestamp(call.responses[1].list[k]) =>
                FromIsoFormat(call.responses[1].list[k].timestamp)
                    >= FromIsoFormat(RequestedStart(call.requests[1]))

\* The calls before the n-th that read the same stream and returned records.
EarlierFetches(n) ==
    {m \in 1..(n - 1) : reads[m].stream = reads[n].stream /\ reads[m].records # <<>>}

\* C28: over the calls of read that share a state, as long as the API
\* returns only records stamped at or after the requested start, the cursor
\* state[stream]['last_sync'] of no stream moves backwards, and each call
\* asks for data from the cursor that the previous successful non-empty
\* call on its stream left.
C28_CursorMonotone ==
    \A n \in 1..Len(reads) :
        (\A m \in 1..n : ApiHonoured(reads[m])) =>
            LET call == reads[n]
            IN  /\ \A s \in DOMAIN call.state_before :
                       /\ s \in DOMAIN call.state_after
                       /\ ~TextLess(call.state_after[s].last_sync,
                                    call.state_before[s].last_sync)
                /\ (call.requests # <<>> /\ EarlierFetches(n) # {}) =>
                       LET last == CHOOSE m \in EarlierFetches(n) :
                                       \A o \in EarlierFetches(n) : o <= m
                       IN  /\ RequestedStart(call.requests[1])
                                = reads[last].state_after[call.stream].last_sync
                           /\ IsLatestOf(RequestedStart(call.requests[1]),
                                         reads[last].records)

\* C28 witness: two reads of the readings stream returned records stamped
\* within their windows; the second asked from the cursor the first had
\* left and moved the cursor on.
C28_Witness ==
    /\ Len(reads) = 2
    /\ \A n \in {1, 2} :
           /\ reads[n].stream = "readings"
           /\ reads[n].records # <<>>
           /\ ApiHonoured(reads[n])
    /\ reads[2].requests[1].params.start = reads[1].state_after.readings.last_sync
    /\ TextLess(reads[1].state_after.readings.last_sync, sync_state.readings.last_sync)

\* C29 (as claimed): with the mock device API as its endpoint, a read of the
\* readings stream is answered with the readings of the sync window, a list
\* that is not empty whenever start <= end, returns them and moves the
\* readings cursor to the latest: the API accepts the request.
C29_MockApiAcceptsReadingsRequest ==
    \A n \in 1..Len(reads) :
        reads[n].stream = "readings" =>
            LET call == reads[n]
                start == FromIsoFormat(call.requests[1].params.start)
                end == FromIsoFormat(call.requests[1].params.end)
            IN  /\ call.responses[1].status = 200
                /\ start <= end => call.records # <<>>
                /\ call.records # <<>> =>
                       /\ "readings" \in DOMAIN call.state_after
                       /\ IsLatestOf(call.state_after.readings.last_sync, call.records)

\* C30 (as claimed): a request whose store returns no usage (GET current) or
\* no history (POST /predict) is answered with status 404, and status 500 is
\* the answer only when a collaborator failed.
C30_NotFoundReaches404 ==
    \A n \in 1..Len(served_requests) :
        LET r == served_requests[n]
        IN  /\ r.store = "no_rows" => r.response.status = 404
            /\ r.response.status = 500 =>
                   r.store = "query_fails" \/ r.predictor = "raises"

====
